---- MODULE Spec2Model ----
(***************************************************************************)
(* Monthly cybersecurity reporting pipeline: entity normalizers, diff      *)
(* engine, enrichment mergers and insight engine, modelled from src/.      *)
(*                                                                         *)
(* Conventions                                                             *)
(*  - a Python str that is normalised, compared or sorted is a sequence of *)
(*    one-character strings (<<"a","@","x">> is "a@x");                    *)
(*  - a Python dict whose iteration order is observable (the users/assets  *)
(*    maps of a snapshot, a device index) is a sequence of <<key, value>>  *)
(*    pairs in insertion order, which json.dump / json.load preserve;      *)
(*  - a Python dict that is only looked up by key is a function;           *)
(*  - a Python dict with fixed keys is a record; an absent key is absent   *)
(*    from the record's DOMAIN;                                            *)
(*  - None is <<>> and a present value v is <<v>>;                         *)
(*  - a month "YYYY-MM" is the pair <<year, mon>>;                         *)
(*  - a file is <<>> when it does not exist and <<content>> when it does.  *)
(***************************************************************************)
EXTENDS Integers, Sequences, FiniteSets, TLC

VARIABLES
    month_idx,          \* users timeline: how many calendar months have gone by
    last_user_raw,      \* users timeline: the raw user list of the latest run
    normalized_users,   \* data/normalized/<month>-users.json, per month
    asset_idx,          \* assets timeline: how many calendar months have gone by
    last_asset_raw,     \* assets timeline: the raw asset list of the latest run
    normalized_assets,  \* data/normalized/<month>-assets.json, per month
    prev_users,         \* diff engine input: users map of --prev-users
    curr_users,         \* diff engine input: users map of --curr-users
    prev_assets,        \* diff engine input: assets map of --prev-assets
    curr_assets,        \* diff engine input: assets map of --curr-assets
    diff_reports,       \* diff engine: the report of each invocation so far
    assets_doc,         \* enrichment: the asset snapshot document being enriched
    users_doc,          \* enrichment: the user snapshot document being enriched
    merge_log,          \* enrichment: <<merger, report>> of each run so far
    ins_users,          \* insight engine input: enriched users document
    ins_assets,         \* insight engine input: enriched assets document
    ins_diff,           \* insight engine input: the diff file (<<>> when missing)
    insights,           \* data/insights/<month>-insights.json
    narrative,          \* narrative builder outcome
    pc,                 \* pipeline: where run_pipeline / run_month stands
    raw_dir,            \* pipeline: data/raw/<month>, the files found in it
    files,              \* pipeline: the data and report files of the run
    files_at_start,     \* pipeline: `files` when the run was launched
    stages_started,     \* pipeline: [stage, returncode] of each child so far
    exit_status,        \* pipeline: exit status of the run (None while running)
    raw_email,          \* identities: an e-mail cell as a raw input carries it
    email_keys          \* identities: the key each component resolved it to

usersVars   == <<month_idx, last_user_raw, normalized_users>>
assetsVars  == <<asset_idx, last_asset_raw, normalized_assets>>
diffVars    == <<prev_users, curr_users, prev_assets, curr_assets, diff_reports>>
enrichVars  == <<assets_doc, users_doc, merge_log>>
insightVars == <<ins_users, ins_assets, ins_diff, insights, narrative>>
pipelineVars == <<pc, raw_dir, files, files_at_start, stages_started, exit_status>>
emailVars == <<raw_email, email_keys>>
vars == <<usersVars, assetsVars, diffVars, enrichVars, insightVars, pipelineVars,
          emailVars>>

(***************************************************************************)
(* Bounds                                                                  *)
(***************************************************************************)
MaxMonth == 3

(***************************************************************************)
(* Python values                                                           *)
(***************************************************************************)
None == <<>>
Some(v) == <<v>>
Truthy(opt) == opt # None /\ opt[1] # <<>>
NotFound == <<>>
File(content) == <<content>>
Exists(file) == file # NotFound

(***************************************************************************)
(* str operations on character sequences                                   *)
(***************************************************************************)
Letters ==
    << <<"a","A">>, <<"b","B">>, <<"c","C">>, <<"d","D">>, <<"e","E">>, <<"f","F">>,
       <<"g","G">>, <<"h","H">>, <<"i","I">>, <<"j","J">>, <<"k","K">>, <<"l","L">>,
       <<"m","M">>, <<"n","N">>, <<"o","O">>, <<"p","P">>, <<"q","Q">>, <<"r","R">>,
       <<"s","S">>, <<"t","T">>, <<"u","U">>, <<"v","V">>, <<"w","W">>, <<"x","X">>,
       <<"y","Y">>, <<"z","Z">> >>
UpperOf == [ch \in {Letters[i][1] : i \in DOMAIN Letters} |->
               Letters[CHOOSE i \in DOMAIN Letters : Letters[i][1] = ch][2]]
LowerOf == [ch \in {Letters[i][2] : i \in DOMAIN Letters} |->
               Letters[CHOOSE i \in DOMAIN Letters : Letters[i][2] = ch][1]]


Upper(s) == [i \in 1..Len(s) |-> IF s[i] \in DOMAIN UpperOf THEN UpperOf[s[i]] ELSE s[i]]
Lower(s) == [i \in 1..Len(s) |-> IF s[i] \in DOMAIN LowerOf THEN LowerOf[s[i]] ELSE s[i]]

RECURSIVE LStrip(_)
LStrip(s) == IF s # <<>> /\ Head(s) = " " THEN LStrip(Tail(s)) ELSE s

RECURSIVE RStrip(_)
RStrip(s) ==
    IF s # <<>> /\ s[Len(s)] = " " THEN RStrip(SubSeq(s, 1, Len(s) - 1)) ELSE s

Strip(s) == RStrip(LStrip(s))

Contains(s, sub) ==
    \E i \in 1..(Len(s) - Len(sub) + 1) : SubSeq(s, i, i + Len(sub) - 1) = sub

EndsWith(s, suffix) ==
    /\ Len(suffix) <= Len(s)
    /\ SubSeq(s, Len(s) - Len(suffix) + 1, Len(s)) = suffix

RECURSIVE Replace(_, _, _)
Replace(s, old, new) ==
    IF Len(s) < Len(old) THEN s
    ELSE IF SubSeq(s, 1, Len(old)) = old
         THEN new \o Replace(SubSeq(s, Len(old) + 1, Len(s)), old, new)
         ELSE <<Head(s)>> \o Replace(Tail(s), old, new)

\* s.split(sep)[0] and s.split(sep)[-1] for a one-character separator
RECURSIVE SplitFirst(_, _)
SplitFirst(s, sep) ==
    IF s = <<>> \/ Head(s) = sep THEN <<>>
    ELSE <<Head(s)>> \o SplitFirst(Tail(s), sep)

RECURSIVE SplitLast(_, _)
SplitLast(s, sep) ==
    IF \E i \in 1..Len(s) : s[i] = sep
    THEN SplitLast(Tail(s), sep)
    ELSE s

\* code points of the characters that occur in identity keys
Ord == [c \in {" ", "1", "2", "7", "8", ":", "@", "A", "B", "C", "D", "N", "S",
               "W", "X", "_", "a", "b", "c", "s", "w", "x"} |->
          CASE c = " " -> 32 [] c = "1" -> 49 [] c = "2" -> 50 [] c = "7" -> 55
            [] c = "8" -> 56 [] c = ":" -> 58 [] c = "@" -> 64 [] c = "A" -> 65
            [] c = "B" -> 66 [] c = "C" -> 67 [] c = "D" -> 68 [] c = "N" -> 78
            [] c = "S" -> 83 [] c = "W" -> 87 [] c = "X" -> 88 [] c = "_" -> 95
            [] c = "a" -> 97 [] c = "b" -> 98 [] c = "c" -> 99 [] c = "s" -> 115
            [] c = "w" -> 119 [] c = "x" -> 120]

\* s < t in Python's str ordering (lexicographic by code point)
RECURSIVE StrLess(_, _)
StrLess(s, t) ==
    IF t = <<>> THEN FALSE
    ELSE IF s = <<>> THEN TRUE
    ELSE IF Ord[Head(s)] # Ord[Head(t)] THEN Ord[Head(s)] < Ord[Head(t)]
    ELSE StrLess(Tail(s), Tail(t))

\* sorted(S) for a set of str
RECURSIVE Sorted(_)
Sorted(S) ==
    IF S = {} THEN <<>>
    ELSE LET least == CHOOSE m \in S : \A o \in S \ {m} : StrLess(m, o)
         IN  <<least>> \o Sorted(S \ {least})

(***************************************************************************)
(* dict operations on insertion-ordered sequences of <<key, value>>        *)
(***************************************************************************)
Keys(d) == {d[i][1] : i \in DOMAIN d}
Has(d, k) == k \in Keys(d)
Get(d, k) == d[CHOOSE i \in DOMAIN d : d[i][1] = k][2]
\* d[k] = v : an existing key keeps its position, a new key goes last
Put(d, k, v) ==
    IF Has(d, k)
    THEN [i \in DOMAIN d |-> IF d[i][1] = k THEN <<k, v>> ELSE d[i]]
    ELSE Append(d, <<k, v>>)

RECURSIVE SeqToSet(_)
SeqToSet(s) == IF s = <<>> THEN {} ELSE {Head(s)} \cup SeqToSet(Tail(s))

\* all sequences without repetition over a finite set
RECURSIVE InjectiveSeqs(_)
InjectiveSeqs(S) ==
    {<<>>} \cup UNION {{<<e>> \o t : t \in InjectiveSeqs(S \ {e})} : e \in S}

(***************************************************************************)
(* Months                                                                  *)
(***************************************************************************)
StartMonth == <<2025, 11>>

NextCalendarMonth(m) == IF m[2] < 12 THEN <<m[1], m[2] + 1>> ELSE <<m[1] + 1, 1>>

RECURSIVE MonthAt(_)
MonthAt(i) == IF i <= 1 THEN StartMonth ELSE NextCalendarMonth(MonthAt(i - 1))

Months == {MonthAt(i) : i \in 1..MaxMonth}

\* run_month: prev_month = f"{year}-{mon-1:02d}" if mon > 1 else f"{year-1}-12"
prev_month(month) ==
    IF month[2] > 1 THEN <<month[1], month[2] - 1>> ELSE <<month[1] - 1, 12>>

MonthLess(m, n) == m[1] < n[1] \/ (m[1] = n[1] /\ m[2] < n[2])

\* the file of a month outside the modelled window does not exist
FileOf(dir, month) == IF month \in DOMAIN dir THEN dir[month] ELSE NotFound

(***************************************************************************)
(* parsers/user_list_parser.py                                             *)
(***************************************************************************)
DOMAIN_ALIASES ==
    << << <<"@","a","l","t","e","r","a","d","e","v","c","o",".","c","o">>,
          <<"@","a","l","t","e","r","a","d","e","v","c","o",".","c","o","m">> >> >>

RECURSIVE ApplyAliases(_, _)
ApplyAliases(email, aliases) ==
    IF aliases = <<>> THEN email
    ELSE LET old == Head(aliases)[1]
             new == Head(aliases)[2]
         IN  ApplyAliases(IF EndsWith(email, old) THEN Replace(email, old, new)
                          ELSE email,
                          Tail(aliases))

\* unicodedata.normalize("NFKC", .) leaves the ASCII characters of the model as they are
user_normalize_email(email) ==
    IF email = <<>> THEN <<>>
    ELSE LET e == Lower(Strip(email))
         IN  IF ~Contains(e, <<"@">>) THEN <<>>
             ELSE ApplyAliases(e, DOMAIN_ALIASES)

ActiveStatusWords ==
    { <<"y","e","s">>, <<"t","r","u","e">>, <<"e","n","a","b","l","e","d">>,
      <<"a","c","t","i","v","e">>, <<"1">> }

M365Words ==
    { <<"o","f","f","i","c","e"," ","3","6","5">>,
      <<"m","i","c","r","o","s","o","f","t"," ","3","6","5">>,
      <<"m","3","6","5">> }

build_user(email, name, status_raw, products_raw, month) ==
    [ name       |-> IF name # <<>> THEN name ELSE SplitFirst(email, "@"),
      status     |-> IF Lower(status_raw) \in ActiveStatusWords
                     THEN "active" ELSE "inactive",
      first_seen |-> None,
      last_seen  |-> Some(month),
      services   |-> [ m365 |-> \E k \in M365Words : Contains(Lower(products_raw), k),
                       edr |-> FALSE,
                       backup |-> FALSE,
                       phishing_training |-> FALSE,
                       dark_web_monitoring |-> FALSE ],
      risk_signals |-> [ phishing_clicked |-> FALSE,
                         dark_web_exposed |-> FALSE,
                         edr_incidents |-> 0 ] ]

\* the row loop of parse_user_list_xlsx: rows without an email are skipped,
\* a second row with the same normalised email is skipped
RECURSIVE UserRows(_, _, _)
UserRows(rows, month, users) ==
    IF rows = <<>> THEN users
    ELSE LET row   == Head(rows)
             email == user_normalize_email(Strip(row.email))
         IN  IF email = <<>> \/ Has(users, email)
             THEN UserRows(Tail(rows), month, users)
             ELSE UserRows(Tail(rows), month,
                           Put(users, email,
                               build_user(email, Strip(row.name), row.status,
                                          row.products, month)))

\* [raised, users]: raises ValueError when no user was parsed
parse_user_list_xlsx(rows, month) ==
    LET users == UserRows(rows, month, <<>>)
    IN  [raised |-> users = <<>>, users |-> users]

\* `path` is the file: NotFound, or File(document)
user_load_previous_snapshot(path) ==
    IF ~Exists(path) THEN <<>> ELSE path[1].users

user_first_seen(email, user, previous, month) ==
    IF Has(previous, email)
    THEN (IF "first_seen" \in DOMAIN Get(previous, email)
          THEN Get(previous, email).first_seen ELSE Some(month))
    ELSE Some(month)

user_resolve_first_seen(current, previous, month) ==
    [ i \in DOMAIN current |->
        <<current[i][1],
          [current[i][2] EXCEPT !.first_seen =
              user_first_seen(current[i][1], current[i][2], previous, month)]>> ]

\* TRUE when validate_users raises
validate_users_raises(users) ==
    \/ users = <<>>
    \/ \E i \in DOMAIN users :
           \/ users[i][2].name = <<>>
           \/ ~Truthy(users[i][2].first_seen)

\* [ok, snapshot]: ok = FALSE when the process ends with an exception before
\* the output file is opened
parse_user_list(rows, month, previous_snapshot_path, now) ==
    LET previous_users == user_load_previous_snapshot(previous_snapshot_path)
        parsed         == parse_user_list_xlsx(rows, month)
        current_users  == user_resolve_first_seen(parsed.users, previous_users, month)
        ok             == ~parsed.raised /\ ~validate_users_raises(current_users)
    IN  [ ok |-> ok,
          snapshot |-> [ metadata |-> [ generated_at |-> now,
                                        month |-> month,
                                        source |-> "user_list" ],
                         users |-> current_users ] ]

(***************************************************************************)
(* Users timeline: one run of the user parser per calendar month, as       *)
(* run_month launches it (output <month>-users.json, previous              *)
(* <prev_month>-users.json).                                               *)
(***************************************************************************)
alice == <<"a","@","x">>
bob   == <<"b","@","x">>
carol == <<"c","@","x">>

UserRowUniverse ==
    { [ email |-> <<"A","@","x">>, name |-> <<"A">>,
        status |-> <<"a","c","t","i","v","e">>, products |-> <<"M","3","6","5">> ],
      [ email |-> <<" ","a","@","x">>, name |-> <<"B">>,
        status |-> <<"n","o">>, products |-> <<>> ],
      [ email |-> <<"b","@","x">>, name |-> <<>>,
        status |-> <<"1">>, products |-> <<>> ] }

RawUserLists == InjectiveSeqs(UserRowUniverse)

NoFiles == [m \in Months |-> NotFound]

UsersIdle ==
    /\ month_idx = 0
    /\ last_user_raw = None
    /\ normalized_users = NoFiles

RunUserParser ==
    /\ month_idx < MaxMonth
    /\ \E rows \in RawUserLists :
          LET month == MonthAt(month_idx + 1)
              res   == parse_user_list(rows, month,
                                       FileOf(normalized_users, prev_month(month)),
                                       month_idx + 1)
          IN  /\ month_idx' = month_idx + 1
              /\ last_user_raw' = Some(rows)
              /\ normalized_users' =
                     IF res.ok
                     THEN [normalized_users EXCEPT ![month] = File(res.snapshot)]
                     ELSE normalized_users

\* run_month ends at "Raw data folder not found": nothing is run for the month
SkipUserMonth ==
    /\ month_idx < MaxMonth
    /\ month_idx' = month_idx + 1
    /\ last_user_raw' = None
    /\ UNCHANGED normalized_users

(***************************************************************************)
(* parsers/asset_list_parser.py                                            *)
(***************************************************************************)
normalize_device_name(name) == IF name = <<>> THEN <<>> ELSE Upper(Strip(name))

normalize_serial(serial) == IF serial = <<>> THEN <<>> ELSE Upper(Strip(serial))

\* also the normalize_email of the phishing and dark-web enrichers
asset_normalize_email(email) == IF email = <<>> THEN <<>> ELSE Lower(Strip(email))

generate_asset_id(device_name, serial) ==
    IF serial # <<>> THEN <<"S","N",":">> \o serial
    ELSE <<"D","N",":">> \o device_name

OrNone(s) == IF s = <<>> THEN None ELSE Some(s)

\* a row's asset without the month stamp in last_seen
asset_of_row_unstamped(row, device_name, serial, month) ==
    [ device_name   |-> device_name,
      serial_number |-> OrNone(serial),
      assigned_user |-> None,
      type          |-> "workstation",
      model         |-> Strip(row.model),
      os            |-> Strip(row.os),
      status        |-> "active",
      first_seen    |-> None,
      last_seen     |-> None,
      security_state |-> [ edr_installed |-> FALSE,
                           backup_enabled |-> FALSE,
                           patched |-> FALSE ] ]

asset_of_row(row, device_name, serial, month) ==
    LET user_email == IF Contains(row.user, <<"@">>)
                      THEN asset_normalize_email(SplitLast(row.user, "\\"))
                      ELSE <<>>
    IN  [ device_name   |-> device_name,
          serial_number |-> OrNone(serial),
          assigned_user |-> OrNone(user_email),
          type          |-> "workstation",
          model         |-> Strip(row.model),
          os            |-> Strip(row.os),
          status        |-> "active",
          first_seen    |-> None,
          last_seen     |-> Some(month),
          security_state |-> [ edr_installed |-> FALSE,
                               backup_enabled |-> FALSE,
                               patched |-> FALSE ] ]

\* the row loop of parse_asset_list_xlsx: a row without device name and serial
\* is skipped; a row whose asset_id is already there overwrites it
RECURSIVE AssetRows(_, _, _)
AssetRows(rows, month, assets) ==
    IF rows = <<>> THEN assets
    ELSE LET row         == Head(rows)
             device_name == normalize_device_name(row.device)
             serial      == normalize_serial(row.serial)
         IN  IF device_name = <<>> /\ serial = <<>>
             THEN AssetRows(Tail(rows), month, assets)
             ELSE AssetRows(Tail(rows), month,
                            Put(assets, generate_asset_id(device_name, serial),
                                asset_of_row(row, device_name, serial, month)))

parse_asset_list_xlsx(rows, month) == AssetRows(rows, month, <<>>)

asset_load_previous_snapshot(path) ==
    IF ~Exists(path) THEN <<>> ELSE path[1].assets

asset_first_seen(asset_id, asset, previous, month) ==
    IF Has(previous, asset_id)
    THEN (IF "first_seen" \in DOMAIN Get(previous, asset_id)
          THEN Get(previous, asset_id).first_seen ELSE None)
    ELSE Some(month)

asset_resolve_first_seen(current, previous, month) ==
    [ i \in DOMAIN current |->
        <<current[i][1],
          [current[i][2] EXCEPT !.first_seen =
              asset_first_seen(current[i][1], current[i][2], previous, month)]>> ]

\* a carry-forward that leaves the status as it was
retired_copy_unchanged(asset) == asset

retired_copy(asset) == [asset EXCEPT !.status = "retired"]

\* a normalizer that carries no absent asset forward
mark_retired_assets_none(current, previous) == <<>>

RECURSIVE mark_retired_assets(_, _)
mark_retired_assets(current, previous) ==
    IF previous = <<>> THEN <<>>
    ELSE LET asset_id == Head(previous)[1]
             rest     == mark_retired_assets(current, Tail(previous))
         IN  IF Has(current, asset_id) THEN rest
             ELSE <<<<asset_id, retired_copy(Head(previous)[2])>>>> \o rest

\* {**a, **b}
RECURSIVE DictMerge(_, _)
DictMerge(a, b) ==
    IF b = <<>> THEN a
    ELSE DictMerge(Put(a, Head(b)[1], Head(b)[2]), Tail(b))

final_assets(current, retired) == DictMerge(current, retired)

\* TRUE when validate_assets raises
validate_assets_raises(assets) ==
    \E i \in DOMAIN assets : ~Truthy(assets[i][2].first_seen)

parse_asset_list(rows, month, previous_snapshot_path, now) ==
    LET previous_assets == asset_load_previous_snapshot(previous_snapshot_path)
        current_assets  == asset_resolve_first_seen(parse_asset_list_xlsx(rows, month),
                                                    previous_assets, month)
        retired_assets  == mark_retired_assets(current_assets, previous_assets)
        final           == final_assets(current_assets, retired_assets)
    IN  [ ok |-> ~validate_assets_raises(final),
          snapshot |-> [ metadata |-> [ generated_at |-> now,
                                        month |-> month,
                                        source |-> "asset_list" ],
                         assets |-> final ] ]

(***************************************************************************)
(* Assets timeline: one run of the asset parser per calendar month, as     *)
(* run_month launches it (output <month>-assets.json, previous             *)
(* <prev_month>-assets.json).                                              *)
(***************************************************************************)
AssetRowUniverse ==
    { [ device |-> <<" ","w","7">>, serial |-> <<"s","1">>,
        user |-> <<"X","\\","A","@","x">>, model |-> <<>>, os |-> <<>> ],
      [ device |-> <<"W","8">>, serial |-> <<>>,
        user |-> <<>>, model |-> <<>>, os |-> <<>> ],
      [ device |-> <<>>, serial |-> <<"S","1"," ">>,
        user |-> <<"b","@","x">>, model |-> <<>>, os |-> <<>> ] }

RawAssetLists == InjectiveSeqs(AssetRowUniverse)

\* the asset ids of the rows of a raw asset list
RawAssetIds(rows) == Keys(parse_asset_list_xlsx(rows, StartMonth))

AssetsIdle ==
    /\ asset_idx = 0
    /\ last_asset_raw = None
    /\ normalized_assets = NoFiles

RunAssetParser ==
    /\ asset_idx < MaxMonth
    /\ \E rows \in RawAssetLists :
          LET month == MonthAt(asset_idx + 1)
              res   == parse_asset_list(rows, month,
                                        FileOf(normalized_assets, prev_month(month)),
                                        asset_idx + 1)
          IN  /\ asset_idx' = asset_idx + 1
              /\ last_asset_raw' = Some(rows)
              /\ normalized_assets' =
                     IF res.ok
                     THEN [normalized_assets EXCEPT ![month] = File(res.snapshot)]
                     ELSE normalized_assets

\* run_month ends before the asset parser (no raw folder, no asset list file,
\* or the user parser failed): nothing is written for the month
SkipAssetMonth ==
    /\ asset_idx < MaxMonth
    /\ asset_idx' = asset_idx + 1
    /\ last_asset_raw' = None
    /\ UNCHANGED normalized_assets

(***************************************************************************)
(* diff_engine.py                                                          *)
(***************************************************************************)
\* load_snapshot(path, key): {} for a missing file
load_snapshot(path, key) == IF ~Exists(path) THEN <<>> ELSE path[1][key]

\* a diff that lists every current key as new
AddedKeysAll(prev_set, curr_set) == Sorted(curr_set)

\* sorted(curr_set - prev_set): new_users, new_devices
AddedKeys(prev_set, curr_set) == Sorted(curr_set \ prev_set)

\* sorted(prev_set - curr_set): resigned_users, retired_devices
RemovedKeys(prev_set, curr_set) == Sorted(prev_set \ curr_set)

\* the keys of a services dict in its insertion order (build_user's)
ServiceOrder == <<"m365", "edr", "backup", "phishing_training", "dark_web_monitoring">>
ServiceKeys(services) == SelectSeq(ServiceOrder, LAMBDA sv : sv \in DOMAIN services)
\* services.get(s), as a truth value
ServiceOn(services, sv) == sv \in DOMAIN services /\ services[sv]

user_services(user) == IF "services" \in DOMAIN user THEN user.services ELSE <<>>

\* a comparison that takes a service that is present for an active one
services_added_if_present(prev_services, curr_services) ==
    SelectSeq(ServiceKeys(curr_services),
              LAMBDA sv : ~ServiceOn(prev_services, sv))

services_added(prev_services, curr_services) ==
    SelectSeq(ServiceKeys(curr_services),
              LAMBDA sv : ServiceOn(curr_services, sv) /\ ~ServiceOn(prev_services, sv))

services_removed(prev_services, curr_services) ==
    SelectSeq(ServiceKeys(prev_services),
              LAMBDA sv : ServiceOn(prev_services, sv) /\ ~ServiceOn(curr_services, sv))

\* the loop `for email in prev_set & curr_set`: `order` is the order in which
\* the set yields its elements
RECURSIVE ServiceChanges(_, _, _)
ServiceChanges(order, prev, curr) ==
    IF order = <<>> THEN <<>>
    ELSE LET email   == Head(order)
             added   == services_added(user_services(Get(prev, email)),
                                       user_services(Get(curr, email)))
             removed == services_removed(user_services(Get(prev, email)),
                                         user_services(Get(curr, email)))
             rest    == ServiceChanges(Tail(order), prev, curr)
         IN  IF added # <<>> \/ removed # <<>>
             THEN <<<<email, [added |-> added, removed |-> removed]>>>> \o rest
             ELSE rest

diff_users(prev, curr, order) ==
    [ new_users       |-> AddedKeys(Keys(prev), Keys(curr)),
      resigned_users  |-> RemovedKeys(Keys(prev), Keys(curr)),
      service_changes |-> ServiceChanges(order, prev, curr) ]

\* a loop that reports a change only between two assigned users
RECURSIVE OwnershipChanges_between_users(_, _, _)
OwnershipChanges_between_users(order, prev, curr) ==
    IF order = <<>> THEN <<>>
    ELSE LET device    == Head(order)
             prev_user == Get(prev, device).assigned_user
             curr_user == Get(curr, device).assigned_user
             rest      == OwnershipChanges_between_users(Tail(order), prev, curr)
         IN  IF prev_user # curr_user /\ Truthy(prev_user) /\ Truthy(curr_user)
             THEN <<<<device, [from |-> prev_user, to |-> curr_user]>>>> \o rest
             ELSE rest

\* the loop `for device in prev_set & curr_set`
RECURSIVE OwnershipChanges(_, _, _)
OwnershipChanges(order, prev, curr) ==
    IF order = <<>> THEN <<>>
    ELSE LET device    == Head(order)
             prev_user == Get(prev, device).assigned_user
             curr_user == Get(curr, device).assigned_user
             rest      == OwnershipChanges(Tail(order), prev, curr)
         IN  IF prev_user # curr_user
             THEN <<<<device, [from |-> prev_user, to |-> curr_user]>>>> \o rest
             ELSE rest

diff_assets(prev, curr, order) ==
    [ new_devices       |-> AddedKeys(Keys(prev), Keys(curr)),
      retired_devices   |-> RemovedKeys(Keys(prev), Keys(curr)),
      ownership_changes |-> OwnershipChanges(order, prev, curr) ]

\* an orphan test that does not look at the status
is_orphaned_any_status(asset) == ~Truthy(asset.assigned_user)

\* asset.get("status") == "active" and not asset.get("assigned_user")
is_orphaned(asset) == asset.status = "active" /\ ~Truthy(asset.assigned_user)

orphaned_device_alerts(assets) ==
    LET hits == SelectSeq(assets, LAMBDA kv : is_orphaned(kv[2]))
    IN  [ i \in DOMAIN hits |->
            [ type     |-> "orphaned_device",
              severity |-> "high",
              message  |-> <<"Device ", hits[i][1], " has no assigned user">> ] ]

\* an alert for every assigned device, whoever it is assigned to
resigned_user_device_alerts_any(resigned_users, assets) ==
    LET hits == SelectSeq(assets, LAMBDA kv : Truthy(kv[2].assigned_user))
    IN  [ i \in DOMAIN hits |->
            [ type     |-> "resigned_user_device",
              severity |-> "critical",
              message  |-> <<"Resigned user ", hits[i][2].assigned_user[1],
                             " still has device ", hits[i][1]>> ] ]

RECURSIVE resigned_user_device_alerts(_, _)
resigned_user_device_alerts(resigned_users, assets) ==
    IF resigned_users = <<>> THEN <<>>
    ELSE LET email == Head(resigned_users)
             hits  == SelectSeq(assets, LAMBDA kv : kv[2].assigned_user = Some(email))
         IN  [ i \in DOMAIN hits |->
                 [ type     |-> "resigned_user_device",
                   severity |-> "critical",
                   message  |-> <<"Resigned user ", email, " still has device ",
                                  hits[i][1]>> ] ]
             \o resigned_user_device_alerts(Tail(resigned_users), assets)

generate_alerts(user_diff, asset_diff, assets) ==
    orphaned_device_alerts(assets)
        \o resigned_user_device_alerts(user_diff.resigned_users, assets)

\* metrics with the subtraction the other way round
generate_metrics_swapped(p_users, c_users, p_assets, c_assets) ==
    [ user_count_change   |-> Len(p_users) - Len(c_users),
      device_count_change |-> Len(p_assets) - Len(c_assets) ]

generate_metrics(p_users, c_users, p_assets, c_assets) ==
    [ user_count_change   |-> Len(c_users) - Len(p_users),
      device_count_change |-> Len(c_assets) - Len(p_assets) ]

\* generate_diff on the four loaded maps; user_order and asset_order are the
\* iteration orders of the two `prev_set & curr_set` sets, `now` the clock
generate_diff(p_users, c_users, p_assets, c_assets, from_month, to_month, user_order, asset_order, now) ==
    LET user_diff  == diff_users(p_users, c_users, user_order)
        asset_diff == diff_assets(p_assets, c_assets, asset_order)
    IN  [ metadata |-> [ from_month |-> from_month,
                         to_month |-> to_month,
                         generated_at |-> now ],
          users    |-> user_diff,
          assets   |-> asset_diff,
          metrics  |-> generate_metrics(p_users, c_users, p_assets, c_assets),
          alerts   |-> generate_alerts(user_diff, asset_diff, c_assets) ]

\* the orders in which a Python set of str may yield its elements: str hashes
\* are salted per process, so every order is possible
IterationOrders(S) == {o \in InjectiveSeqs(S) : Len(o) = Cardinality(S)}

(***************************************************************************)
(* Diff engine runs: four snapshots as the normalizers write them, and     *)
(* generate_diff invoked on them.                                          *)
(***************************************************************************)
Invocations == 2

\* a user of a normalized snapshot, with or without the m365 service
UserRecord(email, m365, month) ==
    [ build_user(email, <<"U">>, <<"1">>,
                 IF m365 THEN <<"m","3","6","5">> ELSE <<>>, month)
      EXCEPT !.first_seen = Some(month) ]

\* an asset of a normalized snapshot
AssetRecord(device_name, serial, user, status, month) ==
    LET seen == IF status = "retired" THEN prev_month(month) ELSE month
    IN  [ asset_of_row([user |-> user, model |-> <<>>, os |-> <<>>],
                       device_name, serial, seen)
          EXCEPT !.first_seen = Some(seen), !.status = status ]

\* the maps with, for each key of `order` in turn, one of options[key] or no entry
RECURSIVE MapsOver(_, _)
MapsOver(order, options) ==
    IF order = <<>> THEN {<<>>}
    ELSE LET k    == Head(order)
             rest == MapsOver(Tail(order), options)
         IN  rest \cup {<<<<k, v>>>> \o r : v \in options[k], r \in rest}

PrevMonth == MonthAt(1)
CurrMonth == MonthAt(2)

PrevUserMaps ==
    MapsOver(<<alice, bob, carol>>,
             [e \in {alice, bob, carol} |->
                 {UserRecord(e, m, PrevMonth) :
                     m \in IF e = bob THEN BOOLEAN ELSE {FALSE}}])

CurrUserMaps ==
    MapsOver(<<alice, bob, carol>>,
             [e \in {alice, bob, carol} |->
                 {UserRecord(e, m, CurrMonth) :
                     m \in IF e = carol THEN {FALSE} ELSE BOOLEAN}])

SN_S1 == generate_asset_id(<<"W","7">>, <<"S","1">>)
DN_W8 == generate_asset_id(<<"W","8">>, <<>>)

AssetOf(id, user, status, month) ==
    IF id = SN_S1 THEN AssetRecord(<<"W","7">>, <<"S","1">>, user, status, month)
    ELSE AssetRecord(<<"W","8">>, <<>>, user, status, month)

PrevAssetMaps ==
    MapsOver(<<SN_S1, DN_W8>>,
             [id \in {SN_S1, DN_W8} |->
                 {AssetOf(id, u, "active", PrevMonth) :
                     u \in IF id = SN_S1 THEN {<<>>, bob} ELSE {<<>>}}])

CurrAssetMaps ==
    MapsOver(<<SN_S1, DN_W8>>,
             [id \in {SN_S1, DN_W8} |->
                 {AssetOf(id, u, st, CurrMonth) :
                     u \in {<<>>, bob},
                     st \in IF id = SN_S1 THEN {"active", "retired"} ELSE {"active"}}])

DiffIdle ==
    /\ prev_users = <<>>
    /\ curr_users = <<>>
    /\ prev_assets = <<>>
    /\ curr_assets = <<>>
    /\ diff_reports = <<>>

DiffInputs ==
    /\ prev_users \in PrevUserMaps
    /\ curr_users \in CurrUserMaps
    /\ prev_assets \in PrevAssetMaps
    /\ curr_assets \in CurrAssetMaps
    /\ diff_reports = <<>>

GenerateDiff ==
    /\ Len(diff_reports) < Invocations
    /\ \E user_order \in IterationOrders(Keys(prev_users) \cap Keys(curr_users)) :
       \E asset_order \in IterationOrders(Keys(prev_assets) \cap Keys(curr_assets)) :
          diff_reports' =
              Append(diff_reports,
                     generate_diff(prev_users, curr_users, prev_assets, curr_assets,
                                   PrevMonth, CurrMonth, user_order, asset_order,
                                   Len(diff_reports) + 1))
    /\ UNCHANGED <<prev_users, curr_users, prev_assets, curr_assets>>

(***************************************************************************)
(* Enrichers.  A report is what pdfplumber's extract_table hands to the    *)
(* parser: rows of cells, each cell a string.  Mappings that the code only *)
(* looks keys up in (parsed reports, security_state, backup_state,         *)
(* risk_signals, metadata) are functions; Assign is `f[k] = v` on them.    *)
(***************************************************************************)
Assign(f, k, v) == [x \in DOMAIN f \cup {k} |-> IF x = k THEN v ELSE f[x]]

EmptyMapping == [x \in {} |-> 0]

DigitValue == [ch \in {"0","1","2","3","4","5","6","7","8","9"} |->
                  CASE ch = "0" -> 0 [] ch = "1" -> 1 [] ch = "2" -> 2
                    [] ch = "3" -> 3 [] ch = "4" -> 4 [] ch = "5" -> 5
                    [] ch = "6" -> 6 [] ch = "7" -> 7 [] ch = "8" -> 8
                    [] ch = "9" -> 9]

\* int(cell or default) on a cell of decimal digits
RECURSIVE IntDigits(_, _)
IntDigits(s, acc) ==
    IF s = <<>> THEN acc ELSE IntDigits(Tail(s), acc * 10 + DigitValue[Head(s)])

IntOr(cell, default) == IF cell = <<>> THEN default ELSE IntDigits(cell, 0)

(***************************************************************************)
(* enrichers/backup_enricher.py                                            *)
(***************************************************************************)
\* the character U+FFFE
NonChar == "U+FFFE"

normalize_device(name) ==
    IF name = <<>> THEN <<>>
    ELSE Strip(SelectSeq(SplitFirst(Lower(name), "_"), LAMBDA ch : ch # NonChar))

\* {normalized device name: [asset_id, ...]} in insertion order
RECURSIVE build_device_index(_, _)
build_device_index(assets, index) ==
    IF assets = <<>> THEN index
    ELSE LET asset_id == Head(assets)[1]
             name     == normalize_device(Head(assets)[2].device_name)
         IN  IF name = <<>> THEN build_device_index(Tail(assets), index)
             ELSE build_device_index(
                      Tail(assets),
                      Put(index, name,
                          IF Has(index, name) THEN Append(Get(index, name), asset_id)
                          ELSE <<asset_id>>))

main_table_status(total_status) ==
    LET status_raw == Lower(total_status)
        completed  == <<"c","o","m","p","l","e","t","e","d">>
        error      == <<"e","r","r","o","r">>
        process    == <<"p","r","o","c","e","s","s">>
    IN  IF Contains(status_raw, completed) /\ ~Contains(status_raw, error)
        THEN "healthy"
        ELSE IF Contains(status_raw, completed) /\ Contains(status_raw, error)
        THEN "warning"
        ELSE IF Contains(status_raw, process) THEN "in_progress"
        ELSE "unknown"

\* the main devices table: a later row of the same device overwrites
RECURSIVE main_devices(_, _)
main_devices(rows, devices) ==
    IF rows = <<>> THEN devices
    ELSE LET name == normalize_device(Head(rows).device)
         IN  IF name = <<>> THEN main_devices(Tail(rows), devices)
             ELSE main_devices(Tail(rows),
                               Assign(devices, name,
                                      [ enabled |-> TRUE,
                                        status |-> main_table_status(
                                                       Head(rows).total_status) ]))

\* the set of normalised names of a failures or pending table
table_names(rows) ==
    {normalize_device(rows[i]) : i \in DOMAIN rows} \ {<<>>}

\* failures are applied over the main table, pending installs last
parse_backup_pdf(report) ==
    LET main     == main_devices(report.devices, EmptyMapping)
        failures == table_names(report.failures)
        pending  == table_names(report.pending)
    IN  [ name \in DOMAIN main \cup failures \cup pending |->
            IF name \in pending
            THEN [enabled |-> FALSE, status |-> "pending_installation"]
            ELSE IF name \in failures
            THEN [enabled |-> TRUE, status |-> "failed"]
            ELSE main[name] ]

backup_risk_level(status) ==
    IF status = "healthy" THEN "low"
    ELSE IF status \in {"in_progress", "warning"} THEN "medium"
    ELSE IF status = "failed" THEN "high"
    ELSE "unknown"

\* a merger that writes the normalised device name back into the asset
backup_state_renaming(asset, device_name, backup_devices) ==
    [asset EXCEPT !.device_name = device_name]

\* the body of the inner loop of enrich_assets_with_backup for one asset
backup_state_of(asset, device_name, backup_devices) ==
    LET state == IF "backup_state" \in DOMAIN asset THEN asset.backup_state
                 ELSE EmptyMapping
        fresh == IF device_name \in DOMAIN backup_devices
                 THEN LET backup == backup_devices[device_name]
                      IN  [ enabled |-> backup.enabled,
                            status |-> backup.status,
                            risk_level |-> backup_risk_level(backup.status) ]
                 ELSE [ enabled |-> TRUE,
                        status |-> "assumed_enabled",
                        risk_level |-> "medium" ]
    IN  Assign(asset, "backup_state",
               Assign(Assign(Assign(state, "enabled", fresh.enabled),
                             "status", fresh.status),
                      "risk_level", fresh.risk_level))

RECURSIVE enrich_asset_ids(_, _, _, _)
enrich_asset_ids(assets, asset_ids, device_name, backup_devices) ==
    IF asset_ids = <<>> THEN assets
    ELSE enrich_asset_ids(
             Put(assets, Head(asset_ids),
                 backup_state_of(Get(assets, Head(asset_ids)), device_name,
                                 backup_devices)),
             Tail(asset_ids), device_name, backup_devices)

\* the assets mapping after the loop over the device index
RECURSIVE enrich_assets_with_backup(_, _, _)
enrich_assets_with_backup(assets, device_index, backup_devices) ==
    IF device_index = <<>> THEN assets
    ELSE enrich_assets_with_backup(
             enrich_asset_ids(assets, Head(device_index)[2], Head(device_index)[1],
                              backup_devices),
             Tail(device_index), backup_devices)

\* the document written to the output path
run_backup_enrichment(doc, report, now) ==
    LET device_index   == build_device_index(doc.assets, <<>>)
        backup_devices == parse_backup_pdf(report)
    IN  [ doc EXCEPT
            !.assets = enrich_assets_with_backup(doc.assets, device_index,
                                                 backup_devices),
            !.metadata = Assign(doc.metadata, "backup_enriched_at", now) ]

(***************************************************************************)
(* enrichers/edr_enricher.py                                               *)
(***************************************************************************)
edr_normalize_serial(serial) == IF serial = <<>> THEN <<>> ELSE Upper(Strip(serial))

\* {SERIAL: {alerts, incidents}}: a later row of the same serial overwrites
RECURSIVE parse_edr_pdf(_, _)
parse_edr_pdf(rows, edr_data) ==
    IF rows = <<>> THEN edr_data
    ELSE LET serial == edr_normalize_serial(Head(rows).serial)
         IN  IF serial = <<>> THEN parse_edr_pdf(Tail(rows), edr_data)
             ELSE parse_edr_pdf(Tail(rows),
                                Assign(edr_data, serial,
                                       [ alerts |-> IntOr(Head(rows).alerts, 0),
                                         incidents |-> IntOr(Head(rows).incidents, 0) ]))

edr_risk_level(edr) ==
    IF edr.incidents > 0 THEN "high"
    ELSE IF edr.alerts > 0 THEN "medium"
    ELSE "low"

\* a merger that adds the report's alerts to the alerts already recorded
edr_state_accumulating(asset, edr_data) ==
    LET serial == IF Truthy(asset.serial_number)
                  THEN Upper(Strip(asset.serial_number[1])) ELSE <<>>
        state  == asset.security_state
        before == IF "edr_alerts" \in DOMAIN state THEN state.edr_alerts ELSE 0
    IN  IF serial \in DOMAIN edr_data
        THEN [ asset EXCEPT !.security_state =
                 Assign(Assign(state, "edr_installed", TRUE),
                        "edr_alerts", before + edr_data[serial].alerts) ]
        ELSE asset

\* the loop body of enrich_assets_with_edr for one asset
edr_state_of(asset, edr_data) ==
    LET serial == IF Truthy(asset.serial_number)
                  THEN edr_normalize_serial(asset.serial_number[1]) ELSE <<>>
        state  == asset.security_state
    IN  IF serial = <<>> THEN asset
        ELSE IF serial \in DOMAIN edr_data
        THEN LET edr == edr_data[serial]
             IN  [ asset EXCEPT !.security_state =
                     Assign(Assign(Assign(Assign(state, "edr_installed", TRUE),
                                          "edr_alerts", edr.alerts),
                                   "edr_incidents", edr.incidents),
                            "risk_level", edr_risk_level(edr)) ]
        ELSE [ asset EXCEPT !.security_state =
                 Assign(Assign(state, "edr_installed", FALSE),
                        "risk_level", "unknown") ]

enrich_assets_with_edr(assets, edr_data) ==
    [i \in DOMAIN assets |-> <<assets[i][1], edr_state_of(assets[i][2], edr_data)>>]

\* a merger that stamps one shared metadata key
run_edr_enrichment_shared_stamp(doc, report, now) ==
    [ doc EXCEPT
        !.assets = enrich_assets_with_edr(doc.assets, parse_edr_pdf(report, EmptyMapping)),
        !.metadata = Assign(Assign(doc.metadata, "edr_enriched_at", now),
                            "backup_enriched_at", now) ]

run_edr_enrichment(doc, report, now) ==
    [ doc EXCEPT
        !.assets = enrich_assets_with_edr(doc.assets, parse_edr_pdf(report, EmptyMapping)),
        !.metadata = Assign(doc.metadata, "edr_enriched_at", now) ]

(***************************************************************************)
(* enrichers/phishing_enricher.py                                          *)
(***************************************************************************)
phishing_normalize_email(email) == IF email = <<>> THEN <<>> ELSE Lower(Strip(email))

RECURSIVE parse_phishing_pdf(_, _)
parse_phishing_pdf(rows, phishing_data) ==
    IF rows = <<>> THEN phishing_data
    ELSE LET email == phishing_normalize_email(Head(rows).email)
         IN  IF email = <<>> THEN parse_phishing_pdf(Tail(rows), phishing_data)
             ELSE parse_phishing_pdf(
                      Tail(rows),
                      Assign(phishing_data, email,
                             [ sent |-> IntOr(Head(rows).emails_sent, 1),
                               clicked |-> IntOr(Head(rows).clicked, 0) ]))

\* the loop body of enrich_users_with_phishing for one user
phishing_signals_of(email, user, phishing_data) ==
    LET signals == user.risk_signals
    IN  IF email \in DOMAIN phishing_data
        THEN LET phishing == phishing_data[email]
             IN  [ user EXCEPT !.risk_signals =
                     Assign(Assign(Assign(Assign(signals, "phishing_clicked",
                                                 phishing.clicked > 0),
                                          "phishing_failures", phishing.clicked),
                                   "phishing_campaigns", phishing.sent),
                            "phishing_risk",
                            IF phishing.clicked > 0 THEN "high" ELSE "low") ]
        ELSE [ user EXCEPT !.risk_signals =
                 Assign(Assign(Assign(signals, "phishing_campaigns", 0),
                               "phishing_failures", 0),
                        "phishing_risk", "unknown") ]

enrich_users_with_phishing(users, phishing_data) ==
    [ i \in DOMAIN users |->
        <<users[i][1], phishing_signals_of(users[i][1], users[i][2], phishing_data)>> ]

run_phishing_enrichment(doc, report, now) ==
    [ doc EXCEPT
        !.users = enrich_users_with_phishing(doc.users,
                                             parse_phishing_pdf(report, EmptyMapping)),
        !.metadata = Assign(doc.metadata, "phishing_enriched_at", now) ]

(***************************************************************************)
(* enrichers/darkweb_enricher.py                                           *)
(***************************************************************************)
darkweb_normalize_email(email) == IF email = <<>> THEN <<>> ELSE Lower(Strip(email))

darkweb_severity(severity) ==
    LET severity_raw == Lower(severity)
    IN  IF Contains(severity_raw, <<"h","i","g","h">>) THEN "high"
        ELSE IF Contains(severity_raw, <<"m","e","d","i","u","m">>) THEN "medium"
        ELSE "low"

RECURSIVE parse_darkweb_pdf(_, _)
parse_darkweb_pdf(rows, darkweb_data) ==
    IF rows = <<>> THEN darkweb_data
    ELSE LET email == darkweb_normalize_email(Head(rows).email)
         IN  IF email = <<>> THEN parse_darkweb_pdf(Tail(rows), darkweb_data)
             ELSE parse_darkweb_pdf(
                      Tail(rows),
                      Assign(darkweb_data, email,
                             [ exposed |-> TRUE,
                               source |-> IF Strip(Head(rows).source) = <<>>
                                          THEN <<"u","n","k","n","o","w","n">>
                                          ELSE Strip(Head(rows).source),
                               severity |-> darkweb_severity(Head(rows).severity) ]))

\* the loop body of enrich_users_with_darkweb for one user
darkweb_signals_of(email, user, darkweb_data) ==
    LET signals == user.risk_signals
    IN  IF email \in DOMAIN darkweb_data
        THEN LET exposure == darkweb_data[email]
             IN  [ user EXCEPT !.risk_signals =
                     Assign(Assign(Assign(signals, "dark_web_exposed", TRUE),
                                   "dark_web_source", exposure.source),
                            "dark_web_severity", exposure.severity) ]
        ELSE [ user EXCEPT !.risk_signals =
                 Assign(Assign(signals, "dark_web_exposed", FALSE),
                        "dark_web_severity", "none") ]

enrich_users_with_darkweb(users, darkweb_data) ==
    [ i \in DOMAIN users |->
        <<users[i][1], darkweb_signals_of(users[i][1], users[i][2], darkweb_data)>> ]

run_darkweb_enrichment(doc, report, now) ==
    [ doc EXCEPT
        !.users = enrich_users_with_darkweb(doc.users,
                                            parse_darkweb_pdf(report, EmptyMapping)),
        !.metadata = Assign(doc.metadata, "darkweb_enriched_at", now) ]

(***************************************************************************)
(* Enrichment runs.  Each merger is a command that reads the snapshot at   *)
(* --assets / --users and writes the merged document at --output.          *)
(* assets_doc and users_doc hold the document written last, which the next *)
(* run reads: run_full_pipeline chains EDR into backup and phishing into   *)
(* dark web this way, and a re-run of a merger on its own output does too. *)
(* The clock of a run is its position in merge_log.                        *)
(***************************************************************************)
MaxEnrichRuns == 2

RECURSIVE SubSeqs(_)
SubSeqs(s) ==
    IF s = <<>> THEN {<<>>}
    ELSE LET rest == SubSeqs(Tail(s))
         IN  rest \cup {<<Head(s)>> \o t : t \in rest}

\* inventory rows: a named workstation with a serial, a serial-only row,
\* and a named device without a serial whose name carries a user suffix
EnrichAssetRows ==
    << [ device |-> <<"W","7">>, serial |-> <<"S","1">>,
         user |-> <<"a","@","x">>, model |-> <<>>, os |-> <<>> ],
       [ device |-> <<>>, serial |-> <<"S","2">>,
         user |-> <<>>, model |-> <<>>, os |-> <<>> ],
       [ device |-> <<"W","7","_","B">>, serial |-> <<>>,
         user |-> <<"b","@","x">>, model |-> <<>>, os |-> <<>> ] >>

EnrichUserRows ==
    << [ email |-> <<"a","@","x">>, name |-> <<"A">>,
         status |-> <<"a","c","t","i","v","e">>, products |-> <<>> ],
       [ email |-> <<"b","@","x">>, name |-> <<"B">>,
         status |-> <<"a","c","t","i","v","e">>, products |-> <<>> ] >>

\* the normalised snapshots of the month, as the parsers write them
BaseAssetDocs ==
    {parse_asset_list(rows, StartMonth, NotFound, 0).snapshot :
        rows \in SubSeqs(EnrichAssetRows)}

BaseUserDocs == {parse_user_list(EnrichUserRows, StartMonth, NotFound, 0).snapshot}

TotalStatuses ==
    { <<"C","o","m","p","l","e","t","e","d">>,
      <<"C","o","m","p","l","e","t","e","d"," ","e","r","r","o","r">>,
      <<"I","n"," ","p","r","o","c","e","s","s">>,
      <<"Q","u","e","u","e","d">> }

\* a backup report: the main devices table, the failures table and the
\* pending-installation table; W9 is a device the inventory does not hold
BackupReports ==
    [ devices  : {<<>>} \cup
                 { << [device |-> <<"W","7","_","A">>, total_status |-> st],
                      [device |-> <<"W","9">>, total_status |-> st] >> :
                   st \in TotalStatuses },
      failures : {<<>>, << <<"w","7">> >>},
      pending  : {<<>>, << <<" ","W","7">> >>} ]

EdrReports ==
    { <<>>,
      << [serial |-> <<" ","s","1">>, alerts |-> <<"0">>, incidents |-> <<"0">>] >>,
      << [serial |-> <<" ","s","1">>, alerts |-> <<"2">>, incidents |-> <<>>] >>,
      << [serial |-> <<" ","s","1">>, alerts |-> <<"1">>, incidents |-> <<"1">>] >>,
      << [serial |-> <<"S","9">>, alerts |-> <<"1">>, incidents |-> <<"1">>] >> }

PhishingReports ==
    { <<>>,
      << [email |-> <<" ","A","@","x">>, emails_sent |-> <<"2">>, clicked |-> <<"0">>] >>,
      << [email |-> <<" ","A","@","x">>, emails_sent |-> <<>>, clicked |-> <<"1">>],
         [email |-> <<"c","@","x">>, emails_sent |-> <<"1">>, clicked |-> <<"1">>] >> }

DarkwebReports ==
    { <<>>,
      << [email |-> <<"A","@","x">>, source |-> <<>>,
          severity |-> <<"H","i","g","h">>] >>,
      << [email |-> <<"b","@","x">>, source |-> <<"B","r">>, severity |-> <<>>],
         [email |-> <<"c","@","x">>, source |-> <<>>, severity |-> <<>>] >> }

EnrichInputs ==
    /\ assets_doc \in BaseAssetDocs
    /\ users_doc \in BaseUserDocs
    /\ merge_log = <<>>

RunEdrEnrichment ==
    /\ Len(merge_log) < MaxEnrichRuns
    /\ \E report \in EdrReports :
          /\ assets_doc' = run_edr_enrichment(assets_doc, report, Len(merge_log) + 1)
          /\ merge_log' = Append(merge_log, <<"edr", report>>)
    /\ UNCHANGED users_doc

RunBackupEnrichment ==
    /\ Len(merge_log) < MaxEnrichRuns
    /\ \E report \in BackupReports :
          /\ assets_doc' = run_backup_enrichment(assets_doc, report, Len(merge_log) + 1)
          /\ merge_log' = Append(merge_log, <<"backup", report>>)
    /\ UNCHANGED users_doc

RunPhishingEnrichment ==
    /\ Len(merge_log) < MaxEnrichRuns
    /\ \E report \in PhishingReports :
          /\ users_doc' = run_phishing_enrichment(users_doc, report, Len(merge_log) + 1)
          /\ merge_log' = Append(merge_log, <<"phishing", report>>)
    /\ UNCHANGED assets_doc

RunDarkwebEnrichment ==
    /\ Len(merge_log) < MaxEnrichRuns
    /\ \E report \in DarkwebReports :
          /\ users_doc' = run_darkweb_enrichment(users_doc, report, Len(merge_log) + 1)
          /\ merge_log' = Append(merge_log, <<"darkweb", report>>)
    /\ UNCHANGED assets_doc

(***************************************************************************)
(* Idle values of the variables a specification does not use               *)
(***************************************************************************)
EnrichIdle ==
    /\ assets_doc = <<>>
    /\ users_doc = <<>>
    /\ merge_log = <<>>

InsightIdle ==
    /\ ins_users = NotFound
    /\ ins_assets = NotFound
    /\ ins_diff = NotFound
    /\ insights = NotFound
    /\ narrative = [outcome |-> "not_run", file |-> NotFound]

(***************************************************************************)
(* insight_engine.py.  A sentence built by an f-string is the tuple of its *)
(* template and the values formatted into it.                              *)
(***************************************************************************)
\* None when the file does not exist
load_json(path) == IF ~Exists(path) THEN None ELSE Some(path[1])

empty_diff ==
    [ users   |-> [ new_users |-> <<>>, resigned_users |-> <<>> ],
      assets  |-> [ new_devices |-> <<>>, retired_devices |-> <<>> ],
      metrics |-> [ user_count_change |-> 0, device_count_change |-> 0 ] ]

analyze_identity(diff) ==
    LET new_users      == Len(diff.users.new_users)
        resigned_users == Len(diff.users.resigned_users)
    IN  (IF new_users > 0
         THEN << <<"{} new user(s) were onboarded during the period.", new_users>> >>
         ELSE <<>>)
        \o
        (IF resigned_users > 0
         THEN << <<"{} user(s) were deprovisioned during the period.",
                   resigned_users>> >>
         ELSE <<>>)

analyze_assets(diff) ==
    LET new_devices     == Len(diff.assets.new_devices)
        retired_devices == Len(diff.assets.retired_devices)
    IN  (IF new_devices > 0
         THEN << <<"{} new workstation(s) were added.", new_devices>> >>
         ELSE <<>>)
        \o
        (IF retired_devices > 0
         THEN << <<"{} workstation(s) were retired.", retired_devices>> >>
         ELSE <<>>)

\* d.get(k, {}) on a mapping
SubMapping(d, k) == IF k \in DOMAIN d THEN d[k] ELSE EmptyMapping

\* d.get(k) == v
FieldIs(d, k, v) == k \in DOMAIN d /\ d[k] = v

\* the sentences of the first loop of analyze_security_risks for one user
user_risks(email, user) ==
    LET risk == SubMapping(user, "risk_signals")
    IN  (IF FieldIs(risk, "phishing_risk", "high")
         THEN << <<"User {} failed a phishing simulation.", email>> >>
         ELSE <<>>)
        \o
        (IF FieldIs(risk, "dark_web_exposed", TRUE)
         THEN << <<"User {} credentials were found on the dark web (severity: {}).",
                   email,
                   IF "dark_web_severity" \in DOMAIN risk
                   THEN Some(risk.dark_web_severity) ELSE None>> >>
         ELSE <<>>)

\* the sentences of the second loop of analyze_security_risks for one asset
asset_risks(asset) ==
    LET backup == SubMapping(asset, "backup_state")
        sec    == SubMapping(asset, "security_state")
    IN  (IF FieldIs(backup, "risk_level", "critical")
         THEN << <<"Asset {} has failing backups.", asset.device_name>> >>
         ELSE <<>>)
        \o
        (IF FieldIs(backup, "enabled", FALSE)
         THEN << <<"Asset {} does not have backups configured.",
                   asset.device_name>> >>
         ELSE <<>>)
        \o
        (IF FieldIs(sec, "risk_level", "high")
         THEN << <<"Asset {} has unresolved EDR incidents.", asset.device_name>> >>
         ELSE <<>>)

RECURSIVE all_user_risks(_)
all_user_risks(users) ==
    IF users = <<>> THEN <<>>
    ELSE user_risks(Head(users)[1], Head(users)[2]) \o all_user_risks(Tail(users))

RECURSIVE all_asset_risks(_)
all_asset_risks(assets) ==
    IF assets = <<>> THEN <<>>
    ELSE asset_risks(Head(assets)[2]) \o all_asset_risks(Tail(assets))

analyze_security_risks(users, assets) ==
    all_user_risks(users.users) \o all_asset_risks(assets.assets)

analyze_positives(users, assets) ==
    (IF ~\E i \in DOMAIN users.users :
            FieldIs(SubMapping(users.users[i][2], "risk_signals"),
                    "phishing_clicked", TRUE)
     THEN << <<"No users failed phishing simulations this period.">> >>
     ELSE <<>>)
    \o
    (IF ~\E i \in DOMAIN assets.assets :
            FieldIs(SubMapping(assets.assets[i][2], "backup_state"),
                    "risk_level", "critical")
     THEN << <<"All monitored devices have healthy backup status.">> >>
     ELSE <<>>)
    \o
    (IF ~\E i \in DOMAIN assets.assets :
            FieldIs(SubMapping(assets.assets[i][2], "security_state"),
                    "risk_level", "high")
     THEN << <<"No high-severity EDR incidents were detected.">> >>
     ELSE <<>>)

build_summary(users, assets, diff) ==
    [ total_users  |-> Len(users.users),
      total_assets |-> Len(assets.assets),
      user_change  |-> diff.metrics.user_count_change,
      asset_change |-> diff.metrics.device_count_change ]

\* [raised, insights]: raised when users or assets is None (subscripting None)
run_insight_engine(users_path, assets_path, diff_path) ==
    LET users  == load_json(users_path)
        assets == load_json(assets_path)
        loaded == load_json(diff_path)
        diff   == IF loaded = None THEN empty_diff ELSE loaded[1]
    IN  IF users = None \/ assets = None
        THEN [raised |-> TRUE, insights |-> <<>>]
        ELSE [ raised |-> FALSE,
               insights |->
                 [ summary_metrics   |-> build_summary(users[1], assets[1], diff),
                   identity_insights |-> analyze_identity(diff),
                   asset_insights    |-> analyze_assets(diff),
                   security_risks    |-> analyze_security_risks(users[1], assets[1]),
                   positive_findings |-> analyze_positives(users[1], assets[1]),
                   trend_indicators  |-> <<>> ] ]

(***************************************************************************)
(* narrative_builder.py                                                    *)
(***************************************************************************)
\* insights.get(k, [])
ListGet(d, k) == IF k \in DOMAIN d THEN d[k] ELSE <<>>

\* summary.get(k, 0)
SummaryGet(summary, k) == IF k \in DOMAIN summary THEN summary[k] ELSE 0

compute_metrics(bundle) ==
    LET summary == SubMapping(bundle, "summary_metrics")
    IN  [ users_joined            |-> SummaryGet(summary, "users_joined"),
          users_departed          |-> SummaryGet(summary, "users_departed"),
          net_user_change         |-> SummaryGet(summary, "net_user_change"),
          new_devices             |-> SummaryGet(summary, "new_devices"),
          retired_devices         |-> SummaryGet(summary, "retired_devices"),
          backup_coverage_percent |-> SummaryGet(summary, "backup_coverage_percent"),
          devices_without_backup  |-> SummaryGet(summary, "devices_without_backup"),
          phishing_failures       |-> SummaryGet(summary, "phishing_failures"),
          critical_edr_incidents  |-> SummaryGet(summary, "critical_edr_incidents") ]

\* [raised, narrative]: insights["summary_metrics"]["executive_summary"] raises
\* KeyError when the bundle has no such entry
build_narrative(bundle, now) ==
    LET metrics == compute_metrics(bundle)
    IN  IF "summary_metrics" \notin DOMAIN bundle
           \/ "executive_summary" \notin DOMAIN bundle.summary_metrics
        THEN [raised |-> TRUE, narrative |-> <<>>]
        ELSE [ raised |-> FALSE,
               narrative |->
                 [ metadata |-> [generated_at |-> now, source |-> "narrative_builder"],
                   executive_context |->
                     [ baseline_summary |-> bundle.summary_metrics.executive_summary,
                       metrics |-> metrics ],
                   identity_access |->
                     [ summary |-> ListGet(bundle, "identity_insights"),
                       users_joined |-> ListGet(bundle, "users_joined"),
                       users_departed |-> ListGet(bundle, "users_departed") ],
                   endpoint_security |->
                     [ summary |-> ListGet(bundle, "asset_insights"),
                       devices_added |-> ListGet(bundle, "devices_added"),
                       devices_retired |-> ListGet(bundle, "devices_retired") ],
                   threat_analysis |->
                     [ summary |-> ListGet(bundle, "security_risks"),
                       phishing_failed_users |-> ListGet(bundle, "phishing_failed_users"),
                       darkweb_exposed_users |-> ListGet(bundle, "darkweb_exposed_users") ],
                   backup_posture |->
                     [ devices_without_backup |->
                         ListGet(bundle, "devices_without_backup_list") ],
                   positive_observations |-> ListGet(bundle, "positive_findings"),
                   recommendations |-> ListGet(bundle, "recommendations") ] ]

(***************************************************************************)
(* Insight runs: the insight engine on the documents the pipeline hands it *)
(* (users after phishing and dark-web enrichment, assets after EDR and     *)
(* backup enrichment, the month's diff or no diff file), then the          *)
(* narrative builder on the bundle.                                        *)
(***************************************************************************)
EnrichedUserDocs ==
    { run_darkweb_enrichment(run_phishing_enrichment(doc, phishing, 1), darkweb, 2) :
        doc \in BaseUserDocs, phishing \in PhishingReports, darkweb \in DarkwebReports }

EnrichedAssetDocs ==
    { run_backup_enrichment(run_edr_enrichment(doc, edr, 1), backup, 2) :
        doc \in BaseAssetDocs, edr \in EdrReports, backup \in BackupReports }

\* a diff of the month: alice left, bob joined, workstation SN:S1 is new
MonthDiff ==
    generate_diff(<<<<alice, UserRecord(alice, FALSE, PrevMonth)>>>>,
                  <<<<bob, UserRecord(bob, FALSE, CurrMonth)>>>>,
                  <<>>,
                  <<<<SN_S1, AssetOf(SN_S1, <<>>, "active", CurrMonth)>>>>,
                  PrevMonth, CurrMonth, <<>>, <<>>, 1)

InsightInputs ==
    /\ ins_users \in {NotFound} \cup {File(doc) : doc \in EnrichedUserDocs}
    /\ ins_assets \in {File(doc) : doc \in EnrichedAssetDocs}
    /\ ins_diff \in {NotFound, File(MonthDiff)}
    /\ insights = NotFound
    /\ narrative = [outcome |-> "not_run", file |-> NotFound]

\* a run that raises leaves the output file as it was
RunInsightEngine ==
    /\ narrative.outcome = "not_run"
    /\ LET run == run_insight_engine(ins_users, ins_assets, ins_diff)
       IN  insights' = IF run.raised THEN insights ELSE File(run.insights)
    /\ UNCHANGED <<ins_users, ins_assets, ins_diff, narrative>>

\* sys.exit when the insights file is missing
RunNarrativeBuilder ==
    /\ narrative.outcome = "not_run"
    /\ IF ~Exists(insights)
       THEN narrative' = [outcome |-> "exit", file |-> NotFound]
       ELSE LET run == build_narrative(insights[1], 1)
            IN  narrative' = IF run.raised
                             THEN [outcome |-> "raised", file |-> NotFound]
                             ELSE [outcome |-> "written", file |-> File(run.narrative)]
    /\ UNCHANGED <<ins_users, ins_assets, ins_diff, insights>>

(***************************************************************************)
(* run_full_pipeline.py and run_month.py: one run of the pipeline for      *)
(* CurrMonth.  `files` holds the files the run reads and writes:           *)
(*   prev_users, prev_assets        data/normalized/<prev_month>-*.json    *)
(*   curr_users, curr_assets        data/normalized/<month>-*.json         *)
(*   diff                           data/diffs/<month>-diff.json           *)
(*   assets_edr, assets_edr_backup, users_phishing,                        *)
(*   users_phishing_darkweb         data/enriched/<month>-*.json           *)
(*   insights, narrative, report    the insight bundle, the narrative and  *)
(*                                  reports/<month>/executive_report_...md *)
(* A stage is a child process: it succeeds and writes its output file, or  *)
(* it ends with a non-zero status and leaves the files as they are.        *)
(***************************************************************************)
StageOrder ==
    << "user_normalization", "asset_normalization", "diff", "edr", "backup",
       "phishing", "darkweb", "insights", "narrative", "polish" >>

StageIndex(stage) == CHOOSE i \in DOMAIN StageOrder : StageOrder[i] = stage

\* where the orchestrator goes after a stage that succeeded (or was skipped);
\* after the last one run_pipeline prints its success message and returns
AfterStage(stage) ==
    CASE stage = "diff"   -> "discover_reports"
      [] stage = "polish" -> "exited"
      [] OTHER            -> StageOrder[StageIndex(stage) + 1]

\* a normalizer that also rewrites the snapshot it read
write_json_touching_previous(fs, path, document) ==
    IF path = "curr_users"
    THEN [fs EXCEPT !.curr_users = File(document), !.prev_users = File(document)]
    ELSE [fs EXCEPT ![path] = File(document)]

\* open(output_path, "w") and json.dump: the file at `path` is (over)written
write_json(fs, path, document) == [fs EXCEPT ![path] = File(document)]

\* the main block of diff_engine.py
diff_engine_main(fs, user_order, asset_order, now) ==
    generate_diff(load_snapshot(fs.prev_users, "users"),
                  load_snapshot(fs.curr_users, "users"),
                  load_snapshot(fs.prev_assets, "assets"),
                  load_snapshot(fs.curr_assets, "assets"),
                  PrevMonth, CurrMonth, user_order, asset_order, now)

\* the child process of a stage that run_month launches: [ok, files].
\* ok = FALSE is a non-zero exit status.
MonthStageProcess(stage, fs, raw, user_order, asset_order, now) ==
    CASE stage = "user_normalization" ->
           LET res == parse_user_list(raw.user_list[1], CurrMonth, fs.prev_users, now)
           IN  [ ok |-> res.ok,
                 files |-> IF res.ok
                           THEN write_json(fs, "curr_users", res.snapshot) ELSE fs ]
      [] stage = "asset_normalization" ->
           LET res == parse_asset_list(raw.asset_list[1], CurrMonth, fs.prev_assets, now)
           IN  [ ok |-> res.ok,
                 files |-> IF res.ok
                           THEN write_json(fs, "curr_assets", res.snapshot) ELSE fs ]
      [] stage = "diff" ->
           [ ok |-> TRUE,
             files |-> write_json(fs, "diff",
                                  diff_engine_main(fs, user_order, asset_order, now)) ]

\* the child process of a stage that run_pipeline launches: [ok, files].
\* A merger raises FileNotFoundError when its input file is missing.
PipelineStageProcess(stage, fs, raw, now) ==
    CASE stage = "edr" ->
           IF ~Exists(fs.curr_assets) THEN [ok |-> FALSE, files |-> fs]
           ELSE [ ok |-> TRUE,
                  files |-> write_json(fs, "assets_edr",
                      run_edr_enrichment(fs.curr_assets[1], raw.edr[1], now)) ]
      [] stage = "backup" ->
           IF ~Exists(fs.assets_edr) THEN [ok |-> FALSE, files |-> fs]
           ELSE [ ok |-> TRUE,
                  files |-> write_json(fs, "assets_edr_backup",
                      run_backup_enrichment(fs.assets_edr[1], raw.backup[1], now)) ]
      [] stage = "phishing" ->
           IF ~Exists(fs.curr_users) THEN [ok |-> FALSE, files |-> fs]
           ELSE [ ok |-> TRUE,
                  files |-> write_json(fs, "users_phishing",
                      run_phishing_enrichment(fs.curr_users[1], raw.phishing[1], now)) ]
      [] stage = "darkweb" ->
           IF ~Exists(fs.users_phishing) THEN [ok |-> FALSE, files |-> fs]
           ELSE [ ok |-> TRUE,
                  files |-> write_json(fs, "users_phishing_darkweb",
                      run_darkweb_enrichment(fs.users_phishing[1], raw.darkweb[1], now)) ]
      [] stage = "insights" ->
           LET res == run_insight_engine(fs.users_phishing_darkweb,
                                         fs.assets_edr_backup, fs.diff)
           IN  [ ok |-> ~res.raised,
                 files |-> IF res.raised THEN fs
                           ELSE write_json(fs, "insights", res.insights) ]
      [] stage = "narrative" ->
           IF ~Exists(fs.insights) THEN [ok |-> FALSE, files |-> fs]
           ELSE LET res == build_narrative(fs.insights[1], now)
                IN  [ ok |-> ~res.raised,
                      files |-> IF res.raised THEN fs
                                ELSE write_json(fs, "narrative", res.narrative) ]
      [] stage = "polish" ->
           IF ~Exists(fs.narrative) THEN [ok |-> FALSE, files |-> fs]
           ELSE [ ok |-> TRUE,
                  files |-> write_json(fs, "report", <<"polished", fs.narrative[1]>>) ]

\* the previous month's snapshots, when the previous month was processed
PrevUsersFile ==
    File(parse_user_list(<<EnrichUserRows[1]>>, PrevMonth, NotFound, 0).snapshot)
PrevAssetsFile ==
    File(parse_asset_list(<<EnrichAssetRows[1]>>, PrevMonth, NotFound, 0).snapshot)

NoDataFiles ==
    [ prev_users |-> NotFound, prev_assets |-> NotFound,
      curr_users |-> NotFound, curr_assets |-> NotFound, diff |-> NotFound,
      assets_edr |-> NotFound, assets_edr_backup |-> NotFound,
      users_phishing |-> NotFound, users_phishing_darkweb |-> NotFound,
      insights |-> NotFound, narrative |-> NotFound, report |-> NotFound ]

\* the raw folders a run may find: each input file is there or not
RawDirs ==
    [ exists     : BOOLEAN,
      user_list  : {None, Some(<<>>), Some(EnrichUserRows)},
      asset_list : {None, Some(<<>>), Some(EnrichAssetRows)},
      edr        : {None, Some(<< [serial |-> <<" ","s","1">>, alerts |-> <<"1">>,
                                   incidents |-> <<"1">>] >>)},
      backup     : {None, Some([ devices  |-> <<>>, failures |-> <<>>,
                                 pending  |-> << <<" ","W","7">> >> ])},
      phishing   : {None, Some(<< [email |-> <<" ","A","@","x">>, emails_sent |-> <<>>,
                                   clicked |-> <<"1">>] >>)},
      darkweb    : {None, Some(<< [email |-> <<"A","@","x">>, source |-> <<>>,
                                   severity |-> <<"H","i","g","h">>] >>)} ]

PipelineInputs ==
    /\ pc = "run_pipeline"
    /\ raw_dir \in {raw \in RawDirs :
                       ~raw.exists =>
                           /\ raw.user_list = None /\ raw.asset_list = None
                           /\ raw.edr = None /\ raw.backup = None
                           /\ raw.phishing = None /\ raw.darkweb = None}
    /\ files \in { NoDataFiles,
                   [NoDataFiles EXCEPT !.prev_users = PrevUsersFile],
                   [NoDataFiles EXCEPT !.prev_users = PrevUsersFile,
                                       !.prev_assets = PrevAssetsFile] }
    /\ files_at_start = files
    /\ stages_started = <<>>
    /\ exit_status = None

PipelineIdle ==
    /\ pc = "idle"
    /\ raw_dir = <<>>
    /\ files = <<>>
    /\ files_at_start = <<>>
    /\ stages_started = <<>>
    /\ exit_status = None

\* sys.exit(message): the process ends with status 1
Exit ==
    /\ pc' = "exited"
    /\ exit_status' = Some(1)

\* run_pipeline up to Phase 1: the raw folder check, then run_month launched
StartPipeline ==
    /\ pc = "run_pipeline"
    /\ IF ~raw_dir.exists THEN Exit
       ELSE pc' = "run_month" /\ UNCHANGED exit_status
    /\ UNCHANGED <<raw_dir, files, files_at_start, stages_started>>

\* run_month up to the parsers: the raw folder and the two input lists
StartRunMonth ==
    /\ pc = "run_month"
    /\ IF ~raw_dir.exists \/ raw_dir.user_list = None \/ raw_dir.asset_list = None
       THEN Exit
       ELSE pc' = "user_normalization" /\ UNCHANGED exit_status
    /\ UNCHANGED <<raw_dir, files, files_at_start, stages_started>>

\* subprocess.run(cmd): the child's return code
Returned(stage, ok) == [stage |-> stage, returncode |-> IF ok THEN 0 ELSE 1]

\* a runner that diffs as soon as one snapshot of the previous month exists
previous_month_found_either(fs) == Exists(fs.prev_users) \/ Exists(fs.prev_assets)

\* the `if` of run_month before the diff engine
previous_month_found(fs) == Exists(fs.prev_users) /\ Exists(fs.prev_assets)

\* a runner that does not look at the return code
AfterChild_unchecked(stage, ok) ==
    [ pc |-> AfterStage(stage),
      exit_status |-> IF stage = "polish" THEN Some(0) ELSE None ]

\* run_command / run after the child has ended: sys.exit on a non-zero
\* status, else on to the next stage; run_pipeline returns after the last one
AfterChild(stage, ok) ==
    [ pc |-> IF ok THEN AfterStage(stage) ELSE "exited",
      exit_status |-> IF ~ok THEN Some(1)
                      ELSE IF stage = "polish" THEN Some(0) ELSE None ]

\* run_month's run_command on the parsers, and on the diff engine when both
\* snapshots of the previous month exist
RunCommand ==
    /\ pc \in {"user_normalization", "asset_normalization", "diff"}
    /\ pc = "diff" => previous_month_found(files)
    /\ \E user_order \in IterationOrders(Keys(load_snapshot(files.prev_users, "users"))
                                        \cap Keys(load_snapshot(files.curr_users, "users"))) :
       \E asset_order \in IterationOrders(Keys(load_snapshot(files.prev_assets, "assets"))
                                         \cap Keys(load_snapshot(files.curr_assets, "assets"))) :
       \E child \in {MonthStageProcess(pc, files, raw_dir, user_order, asset_order,
                                        Len(stages_started) + 1)} :
          /\ files' = child.files
          /\ stages_started' = Append(stages_started, Returned(pc, child.ok))
          /\ pc' = AfterChild(pc, child.ok).pc
          /\ exit_status' = AfterChild(pc, child.ok).exit_status
    /\ UNCHANGED <<raw_dir, files_at_start>>

\* "Previous month not found - diff skipped"
SkipDiff ==
    /\ pc = "diff"
    /\ ~previous_month_found(files)
    /\ pc' = AfterStage("diff")
    /\ UNCHANGED <<raw_dir, files, files_at_start, stages_started, exit_status>>

\* run_pipeline between Phase 1 and Phase 2: the four reports must be there
DiscoverReports ==
    /\ pc = "discover_reports"
    /\ IF raw_dir.edr = None \/ raw_dir.backup = None
          \/ raw_dir.phishing = None \/ raw_dir.darkweb = None
       THEN Exit
       ELSE pc' = "edr" /\ UNCHANGED exit_status
    /\ UNCHANGED <<raw_dir, files, files_at_start, stages_started>>

\* run_pipeline's run on each stage of Phase 2 and Phase 3
Run ==
    /\ pc \in {"edr", "backup", "phishing", "darkweb", "insights", "narrative", "polish"}
    /\ \E child \in {PipelineStageProcess(pc, files, raw_dir, Len(stages_started) + 1)} :
          /\ files' = child.files
          /\ stages_started' = Append(stages_started, Returned(pc, child.ok))
          /\ pc' = AfterChild(pc, child.ok).pc
          /\ exit_status' = AfterChild(pc, child.ok).exit_status
    /\ UNCHANGED <<raw_dir, files_at_start>>

\* the operator launches the pipeline for the month again, on the files the
\* earlier run left
Rerun ==
    /\ pc = "exited"
    /\ pc' = "run_pipeline"
    /\ files_at_start' = files
    /\ stages_started' = <<>>
    /\ exit_status' = None
    /\ UNCHANGED <<raw_dir, files>>

(***************************************************************************)
(* Identity keys: the same e-mail cell as the user list parser, the asset  *)
(* list parser and the phishing and dark-web report parsers resolve it.    *)
(***************************************************************************)
Components == {"user_list", "asset_list", "phishing_report", "darkweb_report"}

AliasDomain == DOMAIN_ALIASES[1][1]

RawEmails ==
    { <<"b">> \o AliasDomain,
      <<" ","B">> \o AliasDomain,
      <<"b">> \o DOMAIN_ALIASES[1][2],
      <<"b","@","x">>,
      <<" ","A","@","x">>,
      <<"a","@","x"," ">>,
      <<"b","o","b">> }

EmailIdle ==
    /\ raw_email = <<>>
    /\ email_keys = <<>>

EmailInputs ==
    /\ raw_email \in RawEmails
    /\ email_keys = [c \in Components |-> None]

Resolve(component, key) ==
    /\ email_keys[component] = None
    /\ email_keys' = [email_keys EXCEPT ![component] = Some(key)]
    /\ UNCHANGED raw_email

\* parse_user_list: users[normalize_email(row email)]
ResolveUserRow == Resolve("user_list", user_normalize_email(Strip(raw_email)))

\* parse_asset_list_xlsx: assigned_user of the row's asset
ResolveAssetRow ==
    LET asset == asset_of_row([user |-> raw_email, model |-> <<>>, os |-> <<>>],
                              <<"W","8">>, <<>>, StartMonth)
    IN  Resolve("asset_list",
                IF asset.assigned_user = None THEN <<>> ELSE asset.assigned_user[1])

\* parse_phishing_pdf: phishing_data[normalize_email(row email)]
ResolvePhishingRow == Resolve("phishing_report", phishing_normalize_email(raw_email))

\* parse_darkweb_pdf: darkweb_data[normalize_email(row email)]
ResolveDarkwebRow == Resolve("darkweb_report", darkweb_normalize_email(raw_email))

(***************************************************************************)
(* Months timeline: run_month once per calendar month, the user parser     *)
(* and then the asset parser on the lists found in the month's raw folder. *)
(***************************************************************************)
MonthFolders ==
    { [ user_list |-> u, asset_list |-> a ] :
        u \in {l \in RawUserLists : Len(l) <= 1},
        a \in {l \in RawAssetLists : Len(l) <= 1} }

\* run_command ends run_month when the user parser fails: the asset parser
\* is not launched
RunMonthNormalizers ==
    /\ month_idx < MaxMonth
    /\ asset_idx = month_idx
    /\ \E folder \in MonthFolders :
          LET month  == MonthAt(month_idx + 1)
              users  == parse_user_list(folder.user_list, month,
                                        FileOf(normalized_users, prev_month(month)),
                                        month_idx + 1)
              assets == parse_asset_list(folder.asset_list, month,
                                         FileOf(normalized_assets, prev_month(month)),
                                         month_idx + 1)
          IN  /\ month_idx' = month_idx + 1
              /\ asset_idx' = asset_idx + 1
              /\ last_user_raw' = Some(folder.user_list)
              /\ normalized_users' =
                     IF users.ok
                     THEN [normalized_users EXCEPT ![month] = File(users.snapshot)]
                     ELSE normalized_users
              /\ last_asset_raw' =
                     IF users.ok THEN Some(folder.asset_list) ELSE None
              /\ normalized_assets' =
                     IF users.ok /\ assets.ok
                     THEN [normalized_assets EXCEPT ![month] = File(assets.snapshot)]
                     ELSE normalized_assets

\* run_month ends before the parsers: no raw folder or a list file is missing
SkipMonth ==
    /\ asset_idx = month_idx
    /\ SkipUserMonth
    /\ SkipAssetMonth

(***************************************************************************)
(* Specifications                                                          *)
(***************************************************************************)
UsersInit == UsersIdle /\ AssetsIdle /\ DiffIdle /\ EnrichIdle /\ InsightIdle /\ PipelineIdle
    /\ EmailIdle

UsersNext ==
    \/ RunUserParser /\ UNCHANGED <<assetsVars, diffVars, enrichVars, insightVars, pipelineVars, emailVars>>
    \/ SkipUserMonth /\ UNCHANGED <<assetsVars, diffVars, enrichVars, insightVars, pipelineVars, emailVars>>

SpecUsers == UsersInit /\ [][UsersNext]_vars

AssetsInit == UsersIdle /\ AssetsIdle /\ DiffIdle /\ EnrichIdle /\ InsightIdle /\ PipelineIdle
    /\ EmailIdle

AssetsNext ==
    \/ RunAssetParser /\ UNCHANGED <<usersVars, diffVars, enrichVars, insightVars, pipelineVars, emailVars>>
    \/ SkipAssetMonth /\ UNCHANGED <<usersVars, diffVars, enrichVars, insightVars, pipelineVars, emailVars>>

SpecAssets == AssetsInit /\ [][AssetsNext]_vars

DiffInit == UsersIdle /\ AssetsIdle /\ DiffInputs /\ EnrichIdle /\ InsightIdle /\ PipelineIdle
    /\ EmailIdle

DiffNext ==
    GenerateDiff /\ UNCHANGED <<usersVars, assetsVars, enrichVars, insightVars, pipelineVars, emailVars>>

SpecDiff == DiffInit /\ [][DiffNext]_vars

EnrichInit == UsersIdle /\ AssetsIdle /\ DiffIdle /\ EnrichInputs /\ InsightIdle /\ PipelineIdle
    /\ EmailIdle

EnrichNext ==
    \/ RunEdrEnrichment /\ UNCHANGED <<usersVars, assetsVars, diffVars, insightVars, pipelineVars, emailVars>>
    \/ RunBackupEnrichment /\ UNCHANGED <<usersVars, assetsVars, diffVars, insightVars, pipelineVars, emailVars>>
    \/ RunPhishingEnrichment /\ UNCHANGED <<usersVars, assetsVars, diffVars, insightVars, pipelineVars, emailVars>>
    \/ RunDarkwebEnrichment /\ UNCHANGED <<usersVars, assetsVars, diffVars, insightVars, pipelineVars, emailVars>>

SpecEnrich == EnrichInit /\ [][EnrichNext]_vars

InsightInit == UsersIdle /\ AssetsIdle /\ DiffIdle /\ EnrichIdle /\ InsightInputs /\ PipelineIdle
    /\ EmailIdle

InsightNext ==
    \/ RunInsightEngine /\ UNCHANGED <<usersVars, assetsVars, diffVars, enrichVars, pipelineVars, emailVars>>
    \/ RunNarrativeBuilder /\ UNCHANGED <<usersVars, assetsVars, diffVars, enrichVars, pipelineVars, emailVars>>

SpecInsight == InsightInit /\ [][InsightNext]_vars

PipelineInit ==
    UsersIdle /\ AssetsIdle /\ DiffIdle /\ EnrichIdle /\ InsightIdle /\ PipelineInputs
    /\ EmailIdle

PipelineNext ==
    \/ StartPipeline /\ UNCHANGED <<usersVars, assetsVars, diffVars, enrichVars, insightVars, emailVars>>
    \/ StartRunMonth /\ UNCHANGED <<usersVars, assetsVars, diffVars, enrichVars, insightVars, emailVars>>
    \/ RunCommand /\ UNCHANGED <<usersVars, assetsVars, diffVars, enrichVars, insightVars, emailVars>>
    \/ SkipDiff /\ UNCHANGED <<usersVars, assetsVars, diffVars, enrichVars, insightVars, emailVars>>
    \/ DiscoverReports /\ UNCHANGED <<usersVars, assetsVars, diffVars, enrichVars, insightVars, emailVars>>
    \/ Run /\ UNCHANGED <<usersVars, assetsVars, diffVars, enrichVars, insightVars, emailVars>>
    \/ Rerun /\ UNCHANGED <<usersVars, assetsVars, diffVars, enrichVars, insightVars, emailVars>>

SpecPipeline == PipelineInit /\ [][PipelineNext]_vars

\* run_pipeline and run_month are sequential programs and every child process
\* they wait for returns: a run that has not exited moves on to its next
\* program point.  Nothing makes an operator launch the pipeline again.
ProgramPoints ==
    {"run_pipeline", "run_month", "discover_reports", "exited"} \cup SeqToSet(StageOrder)

Proceed ==
    /\ pc \in ProgramPoints \ {"exited"}
    /\ pc' \in ProgramPoints \ {pc}

SpecPipelineFair == SpecPipeline /\ WF_pc(Proceed)

EmailInit ==
    UsersIdle /\ AssetsIdle /\ DiffIdle /\ EnrichIdle /\ InsightIdle /\ PipelineIdle
    /\ EmailInputs

EmailNext ==
    \/ ResolveUserRow /\ UNCHANGED <<usersVars, assetsVars, diffVars, enrichVars, insightVars, pipelineVars>>
    \/ ResolveAssetRow /\ UNCHANGED <<usersVars, assetsVars, diffVars, enrichVars, insightVars, pipelineVars>>
    \/ ResolvePhishingRow /\ UNCHANGED <<usersVars, assetsVars, diffVars, enrichVars, insightVars, pipelineVars>>
    \/ ResolveDarkwebRow /\ UNCHANGED <<usersVars, assetsVars, diffVars, enrichVars, insightVars, pipelineVars>>

SpecEmail == EmailInit /\ [][EmailNext]_vars

MonthsInit ==
    UsersIdle /\ AssetsIdle /\ DiffIdle /\ EnrichIdle /\ InsightIdle /\ PipelineIdle
    /\ EmailIdle

MonthsNext ==
    \/ RunMonthNormalizers /\ UNCHANGED <<diffVars, enrichVars, insightVars, pipelineVars, emailVars>>
    \/ SkipMonth /\ UNCHANGED <<diffVars, enrichVars, insightVars, pipelineVars, emailVars>>

SpecMonths == MonthsInit /\ [][MonthsNext]_vars

(***************************************************************************)
(* Claims                                                                  *)
(***************************************************************************)

\* every month from m1 to m2 has its snapshot: each run in between read the
\* snapshot of the calendar month before it
RunEveryMonth(dir, m1, m2) ==
    \A m \in Months :
        (~MonthLess(m, m1) /\ ~MonthLess(m2, m)) => Exists(dir[m])

\* first_seen = M in month M's snapshot stays M in every later snapshot that
\* holds the key, for one kind of snapshot (`field` is "users" or "assets")
FirstSeenStable(dir, field) ==
    \A m1 \in Months : \A m2 \in Months :
        (MonthLess(m1, m2) /\ RunEveryMonth(dir, m1, m2)) =>
            \A k \in Keys(dir[m1][1][field]) \cap Keys(dir[m2][1][field]) :
                Get(dir[m1][1][field], k).first_seen = Some(m1) =>
                    Get(dir[m2][1][field], k).first_seen = Some(m1)

\* C1: identity stability. If entity E (a user keyed by email, an asset keyed
\* by its SN:/DN: id) has first_seen = M in month M's snapshot, then in every
\* later snapshot in which E appears its first_seen is still M, also when E
\* was absent from the raw input for some months in between.
C1_IdentityStability ==
    /\ FirstSeenStable(normalized_users, "users")
    /\ FirstSeenStable(normalized_assets, "assets")

\* C3: retirement round-trip. Every asset id of month M's snapshot that is
\* absent from month M+1's raw input is in month M+1's snapshot with status
\* retired and with month M's device_name and serial_number.
C3_RetirementRoundTrip ==
    \A i \in 2..MaxMonth :
        LET m    == MonthAt(i)
            prev == FileOf(normalized_assets, prev_month(m))
        IN  (asset_idx = i /\ last_asset_raw # None /\ Exists(prev)) =>
                /\ Exists(normalized_assets[m])
                /\ \A id \in Keys(prev[1].assets) \ RawAssetIds(last_asset_raw[1]) :
                       /\ Has(normalized_assets[m][1].assets, id)
                       /\ LET was == Get(prev[1].assets, id)
                              now == Get(normalized_assets[m][1].assets, id)
                          IN  /\ now.status = "retired"
                              /\ now.device_name = was.device_name
                              /\ now.serial_number = was.serial_number

\* an asset that was active in month M's snapshot is retired in month M+1's
C3_Witness ==
    \E i \in 2..MaxMonth :
        LET m    == MonthAt(i)
            prev == FileOf(normalized_assets, prev_month(m))
        IN  /\ asset_idx = i /\ last_asset_raw # None
            /\ Exists(prev) /\ Exists(normalized_assets[m])
            /\ \E id \in Keys(prev[1].assets) \ RawAssetIds(last_asset_raw[1]) :
                   /\ Get(prev[1].assets, id).status = "active"
                   /\ Has(normalized_assets[m][1].assets, id)
                   /\ Get(normalized_assets[m][1].assets, id).status = "retired"

NoRepeats(list) == Cardinality(SeqToSet(list)) = Len(list)

\* C2: set completeness of diff_users. new_users and keys(prev) /\ keys(curr)
\* are disjoint and together are exactly keys(curr); resigned_users and
\* keys(prev) /\ keys(curr) are disjoint and together are exactly keys(prev);
\* no key is listed twice.
C2_SetCompleteness ==
    \A i \in DOMAIN diff_reports :
        LET new      == diff_reports[i].users.new_users
            resigned == diff_reports[i].users.resigned_users
            common   == Keys(prev_users) \cap Keys(curr_users)
        IN  /\ SeqToSet(new) \cap common = {}
            /\ SeqToSet(new) \cup common = Keys(curr_users)
            /\ SeqToSet(resigned) \cap common = {}
            /\ SeqToSet(resigned) \cup common = Keys(prev_users)
            /\ NoRepeats(new) /\ NoRepeats(resigned)

\* a diff with a new user, a resigned user and a user present in both months
C2_Witness ==
    /\ diff_reports # <<>>
    /\ diff_reports[1].users.new_users # <<>>
    /\ diff_reports[1].users.resigned_users # <<>>
    /\ Keys(prev_users) \cap Keys(curr_users) # {}

SameButTimestamp(r1, r2) ==
    [r1 EXCEPT !.metadata.generated_at = 0] = [r2 EXCEPT !.metadata.generated_at = 0]

\* C5: determinism. Two invocations of the diff engine on the same four
\* snapshots produce the same report in every field but generated_at,
\* the order of the service_changes and ownership_changes entries included.
C5_DiffDeterminism ==
    \A i \in DOMAIN diff_reports : \A j \in DOMAIN diff_reports :
        SameButTimestamp(diff_reports[i], diff_reports[j])

\* C8: orphaned-device alert. generate_alerts emits exactly one alert of type
\* orphaned_device, severity high, naming the asset, for each asset of the
\* current snapshot with status active and no assigned user, and none for
\* an asset that is retired or has an assigned user.
C8_OrphanedDeviceAlert ==
    \A i \in DOMAIN diff_reports :
        /\ \A k \in Keys(curr_assets) :
               LET asset  == Get(curr_assets, k)
                   orphan == asset.status = "active" /\ asset.assigned_user = None
                   named  == SelectSeq(diff_reports[i].alerts,
                                       LAMBDA a : a.type = "orphaned_device"
                                                  /\ a.message[2] = k)
               IN  Len(named) = IF orphan THEN 1 ELSE 0
        /\ \A n \in DOMAIN diff_reports[i].alerts :
               LET a == diff_reports[i].alerts[n]
               IN  a.type = "orphaned_device" =>
                       a.severity = "high" /\ a.message[2] \in Keys(curr_assets)

\* a current snapshot with an orphaned active asset beside a retired asset
\* without user, and the alerts generated for it
C8_Witness ==
    /\ diff_reports # <<>>
    /\ \E k \in Keys(curr_assets) :
           Get(curr_assets, k).status = "active"
           /\ Get(curr_assets, k).assigned_user = None
    /\ \E k \in Keys(curr_assets) :
           Get(curr_assets, k).status = "retired"
           /\ Get(curr_assets, k).assigned_user = None
    /\ \E n \in DOMAIN diff_reports[1].alerts :
           diff_reports[1].alerts[n].type = "orphaned_device"

\* C9: diff metrics. user_count_change = |keys(curr_users)| - |keys(prev_users)|
\* = |new_users| - |resigned_users|, device_count_change likewise; and
\* prev = {alice, bob}, curr = {alice, carol} gives new_users = [carol],
\* resigned_users = [bob], user_count_change = 0.
C9_DiffMetrics ==
    \A i \in DOMAIN diff_reports :
        LET r == diff_reports[i]
        IN  /\ r.metrics.user_count_change =
                   Cardinality(Keys(curr_users)) - Cardinality(Keys(prev_users))
            /\ r.metrics.user_count_change =
                   Len(r.users.new_users) - Len(r.users.resigned_users)
            /\ r.metrics.device_count_change =
                   Cardinality(Keys(curr_assets)) - Cardinality(Keys(prev_assets))
            /\ r.metrics.device_count_change =
                   Len(r.assets.new_devices) - Len(r.assets.retired_devices)
            /\ (Keys(prev_users) = {alice, bob} /\ Keys(curr_users) = {alice, carol}) =>
                   /\ r.users.new_users = <<carol>>
                   /\ r.users.resigned_users = <<bob>>
                   /\ r.metrics.user_count_change = 0

\* the diff of prev = {alice, bob} and curr = {alice, carol}, with a device
\* count that changed as well
C9_Witness ==
    /\ diff_reports # <<>>
    /\ Keys(prev_users) = {alice, bob}
    /\ Keys(curr_users) = {alice, carol}
    /\ diff_reports[1].metrics.device_count_change # 0

(***************************************************************************)
(* Enrichment claims (SpecEnrich)                                          *)
(***************************************************************************)
LastMerge == merge_log[Len(merge_log)]

BackupJustRan == merge_log # <<>> /\ LastMerge[1] = "backup"

\* the devices the last backup report mentions in any of its tables
MentionedDevices == DOMAIN parse_backup_pdf(LastMerge[2])

PendingDevices == table_names(LastMerge[2].pending)

FailedDevices == table_names(LastMerge[2].failures)

\* C4: a run of a merger with the report of the run just before it, by the
\* same merger, leaves the entity data (everything but the metadata
\* timestamps) as that first run wrote it.
C4_EnrichmentIdempotence ==
    [][ (merge_log # <<>> /\ merge_log' = Append(merge_log, LastMerge))
        => (assets_doc'.assets = assets_doc.assets
            /\ users_doc'.users = users_doc.users) ]_vars

\* a merger ran twice in a row with one report, and the entity data is no
\* longer what the parsers wrote
C4_Witness ==
    /\ Len(merge_log) >= 2
    /\ merge_log[Len(merge_log) - 1] = LastMerge
    /\ \/ assets_doc.assets \notin {d.assets : d \in BaseAssetDocs}
       \/ users_doc.users \notin {d.users : d \in BaseUserDocs}

\* the fields of an entity outside the given namespaces
Outside(entity, namespaces) ==
    [k \in DOMAIN entity \ namespaces |-> entity[k]]

\* the keys of an entity map in order, each with its fields outside the namespaces
Frame(entities, namespaces) ==
    [i \in DOMAIN entities |-> <<entities[i][1], Outside(entities[i][2], namespaces)>>]

\* C11: every run of a merger leaves the keys of the asset map and of the
\* user map as they were (nothing created, nothing removed) and leaves every
\* field outside backup_state / security_state (assets) and risk_signals
\* (users) unchanged.
C11_EnrichmentFrame ==
    [][ merge_log' # merge_log
        => /\ Frame(assets_doc'.assets, {"backup_state", "security_state"})
                = Frame(assets_doc.assets, {"backup_state", "security_state"})
           /\ Frame(users_doc'.users, {"risk_signals"})
                = Frame(users_doc.users, {"risk_signals"}) ]_vars

\* a backup run whose report names device w9, which no asset of the
\* snapshot has, on a snapshot with assets that it did enrich
C11_Witness ==
    /\ BackupJustRan
    /\ <<"w","9">> \in MentionedDevices
    /\ \A i \in DOMAIN assets_doc.assets :
           normalize_device(assets_doc.assets[i][2].device_name) # <<"w","9">>
    /\ \E i \in DOMAIN assets_doc.assets :
           "backup_state" \in DOMAIN assets_doc.assets[i][2]

\* C6: after a backup run, every asset of the snapshot whose device the
\* report mentions in none of its tables has backup_state
\* {enabled: true, status: "assumed_enabled", risk_level: "medium"}.
C6_ConservativeDefault ==
    BackupJustRan =>
        \A i \in DOMAIN assets_doc.assets :
            LET asset == assets_doc.assets[i][2]
            IN  normalize_device(asset.device_name) \notin MentionedDevices
                => /\ "backup_state" \in DOMAIN asset
                   /\ asset.backup_state = [ enabled |-> TRUE,
                                             status |-> "assumed_enabled",
                                             risk_level |-> "medium" ]

\* C7: after a backup run, an asset reported as pending installation has
\* enabled = false and risk_level = "high"; an asset reported as failed (and
\* not pending) has enabled = true and risk_level = "high"; an asset on the
\* main table only has the main-table status; an unmentioned asset has
\* enabled = true and risk_level = "medium".
C7_BackupTriState ==
    BackupJustRan =>
        \A i \in DOMAIN assets_doc.assets :
            LET asset == assets_doc.assets[i][2]
                name  == normalize_device(asset.device_name)
            IN  name # <<>> =>
                  /\ name \in PendingDevices
                     => /\ asset.backup_state.enabled = FALSE
                        /\ asset.backup_state.status = "pending_installation"
                        /\ asset.backup_state.risk_level = "high"
                  /\ name \in FailedDevices \ PendingDevices
                     => /\ asset.backup_state.enabled = TRUE
                        /\ asset.backup_state.status = "failed"
                        /\ asset.backup_state.risk_level = "high"
                  /\ name \in MentionedDevices \ (FailedDevices \cup PendingDevices)
                     => asset.backup_state.status
                            \in {"healthy", "warning", "in_progress", "unknown"}
                  /\ name \notin MentionedDevices
                     => /\ asset.backup_state.enabled = TRUE
                        /\ asset.backup_state.risk_level = "medium"

(***************************************************************************)
(* Insight claims (SpecInsight)                                            *)
(***************************************************************************)
\* the number of assets of a document with backup_state.enabled = true
BackupEnabledCount(doc) ==
    Cardinality({i \in DOMAIN doc.assets :
                    FieldIs(SubMapping(doc.assets[i][2], "backup_state"),
                            "enabled", TRUE)})

\* C10: the summary metrics of every insight bundle written hold
\* backup_coverage_percent, whose value v satisfies
\* v * max(total_assets, 1) = 100 * (assets with backup_state.enabled = true),
\* which is 0 for a snapshot of zero assets.
C10_CoverageArithmetic ==
    Exists(insights) =>
        LET summary == insights[1].summary_metrics
            total   == Len(ins_assets[1].assets)
        IN  /\ "backup_coverage_percent" \in DOMAIN summary
            /\ summary.backup_coverage_percent * (IF total > 1 THEN total ELSE 1)
                   = 100 * BackupEnabledCount(ins_assets[1])

(***************************************************************************)
(* Normalizer claims (SpecUsers, SpecAssets)                               *)
(***************************************************************************)
\* the identity key a raw user row resolves to (<<>>: the row is skipped)
UserKeyOf(row) == user_normalize_email(Strip(row.email))

\* the identity key a raw asset row resolves to
AssetKeyOf(row) ==
    generate_asset_id(normalize_device_name(row.device), normalize_serial(row.serial))

\* row j is the first row of the list that resolves to its key
FirstUserRow(rows, j) == \A h \in 1..(j - 1) : UserKeyOf(rows[h]) # UserKeyOf(rows[j])
FirstAssetRow(rows, j) == \A h \in 1..(j - 1) : AssetKeyOf(rows[h]) # AssetKeyOf(rows[j])

\* C12: in the snapshot a normalizer run wrote, every entity carries the
\* field values of the first row of the raw input that resolves to its
\* identity key; later rows of the same key do not overwrite it.
C12_FirstRowWins ==
    /\ (month_idx > 0 /\ last_user_raw # None
        /\ Exists(normalized_users[MonthAt(month_idx)])) =>
           LET rows  == last_user_raw[1]
               users == normalized_users[MonthAt(month_idx)][1].users
           IN  \A j \in DOMAIN rows :
                   (UserKeyOf(rows[j]) # <<>> /\ FirstUserRow(rows, j)) =>
                       LET first == build_user(UserKeyOf(rows[j]), Strip(rows[j].name),
                                               rows[j].status, rows[j].products,
                                               MonthAt(month_idx))
                           user  == Get(users, UserKeyOf(rows[j]))
                       IN  /\ user.name = first.name
                           /\ user.status = first.status
                           /\ user.services = first.services
    /\ (asset_idx > 0 /\ last_asset_raw # None
        /\ Exists(normalized_assets[MonthAt(asset_idx)])) =>
           LET rows   == last_asset_raw[1]
               assets == normalized_assets[MonthAt(asset_idx)][1].assets
           IN  \A j \in DOMAIN rows :
                   FirstAssetRow(rows, j) =>
                       LET first == asset_of_row(rows[j],
                                                 normalize_device_name(rows[j].device),
                                                 normalize_serial(rows[j].serial),
                                                 MonthAt(asset_idx))
                           asset == Get(assets, AssetKeyOf(rows[j]))
                       IN  /\ asset.device_name = first.device_name
                           /\ asset.assigned_user = first.assigned_user

\* C13: a normalizer writes no snapshot whose entity set is empty, that
\* holds a user with an empty name, or that holds an entity without
\* first_seen: in each of these cases the run fails before the file is written.
C13_ValidationGate ==
    \A m \in Months :
        /\ Exists(normalized_users[m]) =>
               LET users == normalized_users[m][1].users
               IN  /\ users # <<>>
                   /\ \A i \in DOMAIN users :
                          /\ users[i][2].name # <<>>
                          /\ Truthy(users[i][2].first_seen)
        /\ Exists(normalized_assets[m]) =>
               LET assets == normalized_assets[m][1].assets
               IN  /\ assets # <<>>
                   /\ \A i \in DOMAIN assets : Truthy(assets[i][2].first_seen)

(***************************************************************************)
(* Pipeline claims (SpecPipeline)                                          *)
(***************************************************************************)
RunFailed == exit_status # None /\ exit_status # Some(0)

\* the run started without one of the two snapshots of the previous month
FirstMonthRun ==
    ~Exists(files_at_start.prev_users) \/ ~Exists(files_at_start.prev_assets)

\* C14: a run of the pipeline that ends with a fatal error has written no
\* output file: the normalized, diff, enriched and insight files are exactly
\* as they were when the run started
C14_NoOutputOnFatalError == RunFailed => files = files_at_start

Started == [i \in DOMAIN stages_started |-> stages_started[i].stage]

\* C15: stages are started in the fixed order only; when a stage is started,
\* every stage before it in the order has returned zero (the diff stage may
\* have been left out, which run_month does when the previous month was not
\* found); after a non-zero return code no stage is started and the run ends
\* with a non-zero exit
C15_StageOrderingAndAbort ==
    /\ \A i, j \in DOMAIN Started :
           i < j => StageIndex(Started[i]) < StageIndex(Started[j])
    /\ \A j \in DOMAIN Started : \A k \in 1..(StageIndex(Started[j]) - 1) :
           \/ \E i \in 1..(j - 1) : /\ Started[i] = StageOrder[k]
                                    /\ stages_started[i].returncode = 0
           \/ StageOrder[k] = "diff" /\ FirstMonthRun
    /\ \A i \in DOMAIN stages_started :
           stages_started[i].returncode # 0
               => i = Len(stages_started) /\ pc = "exited" /\ RunFailed

\* a stage has failed after others had succeeded
C15_Witness ==
    /\ Len(stages_started) > 3
    /\ stages_started[Len(stages_started)].returncode # 0
    /\ stages_started[1].returncode = 0

\* C16: when the previous month's user or asset snapshot does not exist, the
\* diff engine is not invoked and no diff file appears, and the bundle the
\* insight engine writes holds what the empty diff gives: no new or resigned
\* user, no new or retired device, both changes zero
C16_MissingPreviousSnapshot ==
    FirstMonthRun =>
        /\ \A i \in DOMAIN Started : Started[i] # "diff"
        /\ ~Exists(files.diff)
        /\ Exists(files.insights) =>
               /\ files.insights[1].identity_insights = <<>>
               /\ files.insights[1].asset_insights = <<>>
               /\ files.insights[1].summary_metrics.user_change = 0
               /\ files.insights[1].summary_metrics.asset_change = 0

\* a first-month run (one with only the users snapshot of the previous month
\* counts as one) whose insight bundle was written
C16_Witness ==
    /\ pc # "idle"
    /\ Exists(files_at_start.prev_users)
    /\ ~Exists(files_at_start.prev_assets)
    /\ Exists(files.insights)
    /\ files.curr_users[1].users # <<>>
    /\ files.curr_assets[1].assets # <<>>

\* C17: the load of a snapshot whose file does not exist does not yield the
\* empty entity mapping (the value an existing snapshot with zero entities
\* loads as), for the two normalizers' previous-snapshot load and for the
\* diff engine's load
C17_MissingSnapshotLoad ==
    stages_started # <<>> =>
        /\ ~Exists(files.prev_users) =>
               /\ user_load_previous_snapshot(files.prev_users) # <<>>
               /\ load_snapshot(files.prev_users, "users") # <<>>
        /\ ~Exists(files.prev_assets) =>
               /\ asset_load_previous_snapshot(files.prev_assets) # <<>>
               /\ load_snapshot(files.prev_assets, "assets") # <<>>

(***************************************************************************)
(* Insight bundle claims (SpecInsight)                                     *)
(***************************************************************************)
\* TRUE when the sequence of sentences holds one built from `template`
HasSentence(sentences, template) ==
    \E i \in DOMAIN sentences : sentences[i][1] = template

\* C18: in an insight bundle, "No users failed phishing simulations" is there
\* only if no user failed a simulation, "All monitored devices have healthy
\* backup status" only if no asset has a failed or missing backup, "No
\* high-severity EDR incidents" only if no asset has EDR incidents; and none
\* of the three stands next to a security risk entry for the same condition
C18_PositiveFindings ==
    Exists(insights) =>
        LET positives == insights[1].positive_findings
            risks     == insights[1].security_risks
            users     == ins_users[1].users
            assets    == ins_assets[1].assets
            signals(i) == SubMapping(users[i][2], "risk_signals")
            backup(i)  == SubMapping(assets[i][2], "backup_state")
            sec(i)     == SubMapping(assets[i][2], "security_state")
        IN  /\ HasSentence(positives, "No users failed phishing simulations this period.")
                   => /\ \A i \in DOMAIN users :
                             "phishing_failures" \in DOMAIN signals(i)
                                 => signals(i).phishing_failures = 0
                      /\ ~HasSentence(risks, "User {} failed a phishing simulation.")
            /\ HasSentence(positives, "All monitored devices have healthy backup status.")
                   => /\ \A i \in DOMAIN assets :
                             /\ ~FieldIs(backup(i), "status", "failed")
                             /\ ~FieldIs(backup(i), "enabled", FALSE)
                      /\ ~HasSentence(risks, "Asset {} has failing backups.")
                      /\ ~HasSentence(risks, "Asset {} does not have backups configured.")
            /\ HasSentence(positives, "No high-severity EDR incidents were detected.")
                   => /\ \A i \in DOMAIN assets :
                             "edr_incidents" \in DOMAIN sec(i)
                                 => sec(i).edr_incidents = 0
                      /\ ~HasSentence(risks, "Asset {} has unresolved EDR incidents.")

\* the diff the insight engine worked from
UsedDiff == IF Exists(ins_diff) THEN ins_diff[1] ELSE empty_diff

\* TRUE when the bundle holds `list` under one of `keys`
HoldsList(bundle, keys, list) ==
    \E k \in keys \cap DOMAIN bundle : bundle[k] = list

\* TRUE when the bundle holds, under one of `keys`, a list of exactly the
\* entities of `named`
HoldsNamed(bundle, keys, named) ==
    \E k \in keys \cap DOMAIN bundle :
        SeqToSet(bundle[k]) = named /\ Len(bundle[k]) = Cardinality(named)

\* TRUE when the summary metrics hold the count n under one of `keys`
HoldsCount(bundle, keys, n) ==
    \E k \in keys \cap DOMAIN bundle.summary_metrics : bundle.summary_metrics[k] = n

\* entries other than the sentence lists and totals the insight engine fills
FurtherEntries(bundle) ==
    DOMAIN bundle \ {"summary_metrics", "identity_insights", "asset_insights",
                     "security_risks", "positive_findings", "trend_indicators"}
FurtherCounts(bundle) ==
    DOMAIN bundle.summary_metrics
        \ {"total_users", "total_assets", "user_change", "asset_change"}

\* C19: the insight bundle holds, for onboarded users, offboarded users,
\* added devices, retired devices, phishing failures, dark-web exposures,
\* EDR incidents and missing backups, the list of the named entities (equal
\* to the list of the diff or of the enriched snapshot) and a count equal to
\* the length of that list.  The keys are those the narrative builder
\* reads; where it reads none, any further entry of the bundle counts.
C19_NamedLists ==
    Exists(insights) =>
        LET bundle == insights[1]
            users  == ins_users[1].users
            assets == ins_assets[1].assets
            UsersWith(k, v) ==
                { users[i][1] : i \in { j \in DOMAIN users :
                      FieldIs(SubMapping(users[j][2], "risk_signals"), k, v) } }
            AssetsWith(ns, k, v) ==
                { assets[i][2].device_name : i \in { j \in DOMAIN assets :
                      FieldIs(SubMapping(assets[j][2], ns), k, v) } }
        IN  /\ HoldsList(bundle, {"users_joined"}, UsedDiff.users.new_users)
            /\ HoldsCount(bundle, {"users_joined"}, Len(UsedDiff.users.new_users))
            /\ HoldsList(bundle, {"users_departed"}, UsedDiff.users.resigned_users)
            /\ HoldsCount(bundle, {"users_departed"},
                          Len(UsedDiff.users.resigned_users))
            /\ HoldsList(bundle, {"devices_added"}, UsedDiff.assets.new_devices)
            /\ HoldsCount(bundle, {"new_devices"}, Len(UsedDiff.assets.new_devices))
            /\ HoldsList(bundle, {"devices_retired"}, UsedDiff.assets.retired_devices)
            /\ HoldsCount(bundle, {"retired_devices"},
                          Len(UsedDiff.assets.retired_devices))
            /\ HoldsNamed(bundle, {"phishing_failed_users"},
                          UsersWith("phishing_clicked", TRUE))
            /\ HoldsCount(bundle, {"phishing_failures"},
                          Cardinality(UsersWith("phishing_clicked", TRUE)))
            /\ HoldsNamed(bundle, {"darkweb_exposed_users"},
                          UsersWith("dark_web_exposed", TRUE))
            /\ HoldsCount(bundle, FurtherCounts(bundle),
                          Cardinality(UsersWith("dark_web_exposed", TRUE)))
            /\ HoldsNamed(bundle, FurtherEntries(bundle),
                          AssetsWith("security_state", "risk_level", "high"))
            /\ HoldsCount(bundle, {"critical_edr_incidents"},
                          Cardinality(AssetsWith("security_state", "risk_level", "high")))
            /\ HoldsNamed(bundle, {"devices_without_backup_list"},
                          AssetsWith("backup_state", "enabled", FALSE))
            /\ HoldsCount(bundle, {"devices_without_backup"},
                          Cardinality(AssetsWith("backup_state", "enabled", FALSE)))

(***************************************************************************)
(* Alert claims (SpecDiff)                                                 *)
(***************************************************************************)
\* the pairs (resigned user, device of the current snapshot assigned to them)
ResignedPairs ==
    { p \in (Keys(prev_users) \ Keys(curr_users)) \X Keys(curr_assets) :
        Get(curr_assets, p[2]).assigned_user = Some(p[1]) }

\* C20: resigned-user-device alert. In every diff, generate_alerts emits one
\* alert of type resigned_user_device and severity critical for each pair of
\* a resigned user and an asset of the current snapshot assigned to that
\* user, and no such alert for any other pair.
C20_ResignedUserDeviceAlert ==
    \A i \in DOMAIN diff_reports :
        LET alerts == SelectSeq(diff_reports[i].alerts,
                                LAMBDA a : a.type = "resigned_user_device")
        IN  /\ \A p \in ResignedPairs :
                   Cardinality({n \in DOMAIN alerts :
                                   /\ alerts[n].message[2] = p[1]
                                   /\ alerts[n].message[4] = p[2]}) = 1
            /\ \A n \in DOMAIN alerts :
                   /\ alerts[n].severity = "critical"
                   /\ <<alerts[n].message[2], alerts[n].message[4]>> \in ResignedPairs

\* bob resigned and still has a device, while another device of the current
\* snapshot is not his; the alerts were generated
C20_Witness ==
    /\ diff_reports # <<>>
    /\ ResignedPairs # {}
    /\ \E k \in Keys(curr_assets) : \A p \in ResignedPairs : p[2] # k
    /\ \E n \in DOMAIN diff_reports[1].alerts :
           diff_reports[1].alerts[n].type = "resigned_user_device"

(***************************************************************************)
(* Merger composition claims (SpecEnrich)                                  *)
(***************************************************************************)
\* the two documents after one run of `merger` with `report` at time `now`
RunMerger(merger, docs, report, now) ==
    CASE merger = "edr" ->
           [docs EXCEPT !.assets = run_edr_enrichment(docs.assets, report, now)]
      [] merger = "backup" ->
           [docs EXCEPT !.assets = run_backup_enrichment(docs.assets, report, now)]
      [] merger = "phishing" ->
           [docs EXCEPT !.users = run_phishing_enrichment(docs.users, report, now)]
      [] merger = "darkweb" ->
           [docs EXCEPT !.users = run_darkweb_enrichment(docs.users, report, now)]

\* the documents after the runs of `log`, the first of them at time `now`
RECURSIVE Replay(_, _, _)
Replay(docs, log, now) ==
    IF log = <<>> THEN docs
    ELSE Replay(RunMerger(Head(log)[1], docs, Head(log)[2], now), Tail(log), now + 1)

\* the normalised documents the runs of merge_log started from
\* (a merger changes one document only, so each is traced back on its own)
StartDocs ==
    LET any == [ assets |-> CHOOSE a \in BaseAssetDocs : TRUE,
                 users  |-> CHOOSE u \in BaseUserDocs : TRUE ]
    IN  [ assets : { a \in BaseAssetDocs :
                       Replay([any EXCEPT !.assets = a], merge_log, 1).assets
                           = assets_doc },
          users  : { u \in BaseUserDocs :
                       Replay([any EXCEPT !.users = u], merge_log, 1).users
                           = users_doc } ]

\* the fields of every entity inside the namespace a merger writes
NamespaceOf(merger) ==
    CASE merger = "edr" -> "security_state"
      [] merger = "backup" -> "backup_state"
      [] OTHER -> "risk_signals"
Inside(entities, namespace) ==
    [i \in DOMAIN entities |->
        <<entities[i][1], SubMapping(entities[i][2], namespace)>>]
OwnFields(merger, docs) ==
    IF merger \in {"edr", "backup"}
    THEN Inside(docs.assets.assets, NamespaceOf(merger))
    ELSE Inside(docs.users.users, NamespaceOf(merger))

\* C21: a merger run with report R1 and then with report R2 leaves, in that
\* merger's own fields, the values a single run with R2 on the same snapshot
\* gives: nothing written for R1 survives
C21_NamespaceOverwrite ==
    (Len(merge_log) = 2 /\ merge_log[1][1] = merge_log[2][1]) =>
        \A docs \in StartDocs :
            OwnFields(merge_log[2][1], Replay(docs, merge_log, 1))
                = OwnFields(merge_log[2][1], Replay(docs, Tail(merge_log), 1))

\* the metadata key a merger stamps
TimestampKey(merger) ==
    CASE merger = "edr" -> "edr_enriched_at"
      [] merger = "backup" -> "backup_enriched_at"
      [] merger = "phishing" -> "phishing_enriched_at"
      [] merger = "darkweb" -> "darkweb_enriched_at"

\* TRUE when the two metadata mappings agree on every key but `key`
SameBut(before, after, key) ==
    /\ DOMAIN after = DOMAIN before \cup {key}
    /\ \A k \in DOMAIN before \ {key} : after[k] = before[k]

\* the two mergers of the asset snapshot, or the two of the user snapshot
Companions(m1, m2) ==
    {m1, m2} = {"edr", "backup"} \/ {m1, m2} = {"phishing", "darkweb"}

\* after two runs of companion mergers, the runs in the other order give the
\* same entities
CompanionsCommute ==
    (Len(merge_log) = 2 /\ Companions(merge_log[1][1], merge_log[2][1])) =>
        /\ StartDocs # {}
        /\ \A docs \in StartDocs :
               LET swapped == Replay(docs, <<merge_log[2], merge_log[1]>>, 1)
               IN  /\ swapped.assets.assets = assets_doc.assets
                   /\ swapped.users.users = users_doc.users

\* a run of a merger stamps its own metadata key with the time of the run
\* and changes no other metadata entry of either document
StampsOwnKey ==
    merge_log' # merge_log =>
        LET merger == merge_log'[Len(merge_log')][1]
        IN  IF merger \in {"edr", "backup"}
            THEN /\ SameBut(assets_doc.metadata, assets_doc'.metadata,
                            TimestampKey(merger))
                 /\ assets_doc'.metadata[TimestampKey(merger)] = Len(merge_log')
                 /\ users_doc'.metadata = users_doc.metadata
            ELSE /\ SameBut(users_doc.metadata, users_doc'.metadata,
                            TimestampKey(merger))
                 /\ users_doc'.metadata[TimestampKey(merger)] = Len(merge_log')
                 /\ assets_doc'.metadata = assets_doc.metadata

\* C22: EDR then backup enrichment gives the same asset data as backup then
\* EDR, phishing then dark-web the same user data as dark-web then phishing;
\* each run of a merger sets its own *_enriched_at metadata key and leaves
\* every other metadata entry of both documents as it was
C22_MergerComposition == []CompanionsCommute /\ [][StampsOwnKey]_enrichVars

\* EDR and backup enrichment ran one after the other, each with a report
\* that changed an asset
C22_Witness ==
    /\ Len(merge_log) = 2
    /\ merge_log[1][1] = "backup" /\ merge_log[2][1] = "edr"
    /\ \E i \in DOMAIN assets_doc.assets :
           /\ FieldIs(SubMapping(assets_doc.assets[i][2], "backup_state"),
                      "status", "failed")
           /\ FieldIs(assets_doc.assets[i][2].security_state, "risk_level", "high")

(***************************************************************************)
(* Pipeline frame claim (SpecPipeline)                                     *)
(***************************************************************************)
\* C23: a pipeline run for the month leaves the normalized snapshots of the
\* previous month, which it reads, as they are, whether the run succeeds or
\* fails and however often the month is run again
C23_PreviousMonthsReadOnly ==
    [][ /\ files'.prev_users = files.prev_users
        /\ files'.prev_assets = files.prev_assets ]_pipelineVars

\* a run of the month on files an earlier run of the month left has ended,
\* having read the previous month's snapshots and written this month's
C23_Witness ==
    /\ pc = "exited"
    /\ Exists(files_at_start.curr_users)
    /\ Exists(files.prev_users) /\ Exists(files.prev_assets)
    /\ Exists(files.diff)
    /\ Len(stages_started) > 3

(***************************************************************************)
(* Change-detection claims (SpecDiff)                                      *)
(***************************************************************************)
\* the services that are truthy for user u in a snapshot
ActiveServices(users, u) ==
    {sv \in SeqToSet(ServiceOrder) :
        /\ "services" \in DOMAIN Get(users, u)
        /\ sv \in DOMAIN Get(users, u).services
        /\ Get(users, u).services[sv]}

\* C24: diff_users emits a service_changes entry for user u exactly when u
\* is in both snapshots and some service is truthy in one and not truthy in
\* the other; its added list holds exactly the services truthy in curr and
\* not in prev, its removed list exactly those truthy in prev and not in curr
C24_UserServiceChanges ==
    \A i \in DOMAIN diff_reports :
        LET changes == diff_reports[i].users.service_changes
            both    == Keys(prev_users) \cap Keys(curr_users)
        IN  /\ \A n \in DOMAIN changes : changes[n][1] \in both
            /\ \A u \in both :
                   LET entries == {n \in DOMAIN changes : changes[n][1] = u}
                       before  == ActiveServices(prev_users, u)
                       after   == ActiveServices(curr_users, u)
                   IN  /\ Cardinality(entries) = IF before # after THEN 1 ELSE 0
                       /\ \A n \in entries :
                              /\ SeqToSet(changes[n][2].added) = after \ before
                              /\ Len(changes[n][2].added) = Cardinality(after \ before)
                              /\ SeqToSet(changes[n][2].removed) = before \ after
                              /\ Len(changes[n][2].removed)
                                     = Cardinality(before \ after)

\* one user gained a service, another lost one, a third is in both
\* snapshots with the same services, and the diff was generated
C24_Witness ==
    /\ diff_reports # <<>>
    /\ \E n \in DOMAIN diff_reports[1].users.service_changes :
           diff_reports[1].users.service_changes[n][2].added # <<>>
    /\ \E n \in DOMAIN diff_reports[1].users.service_changes :
           diff_reports[1].users.service_changes[n][2].removed # <<>>

\* C25: diff_assets emits an ownership_changes entry {from, to} for asset a
\* exactly when a is in both snapshots and its assigned_user differs between
\* them, a change from or to no user included; an asset in only one snapshot
\* or with the same assigned_user has no entry
C25_AssetOwnershipChanges ==
    \A i \in DOMAIN diff_reports :
        LET changes == diff_reports[i].assets.ownership_changes
            both    == Keys(prev_assets) \cap Keys(curr_assets)
        IN  /\ \A n \in DOMAIN changes : changes[n][1] \in both
            /\ \A a \in both :
                   LET entries == {n \in DOMAIN changes : changes[n][1] = a}
                       from    == Get(prev_assets, a).assigned_user
                       to      == Get(curr_assets, a).assigned_user
                   IN  /\ Cardinality(entries) = IF from # to THEN 1 ELSE 0
                       /\ \A n \in entries :
                              changes[n][2] = [from |-> from, to |-> to]

\* an asset went from no user to a user, another asset is in both snapshots
\* with the same user, and the diff was generated
C25_Witness ==
    /\ diff_reports # <<>>
    /\ \E n \in DOMAIN diff_reports[1].assets.ownership_changes :
           /\ diff_reports[1].assets.ownership_changes[n][2].from = None
           /\ diff_reports[1].assets.ownership_changes[n][2].to # None
    /\ \E a \in Keys(prev_assets) \cap Keys(curr_assets) :
           Get(prev_assets, a).assigned_user = Get(curr_assets, a).assigned_user

(***************************************************************************)
(* Identity claims (SpecEmail)                                             *)
(***************************************************************************)
\* C26: the key under which the user list parser stores a user is also what
\* the asset list parser stores as assigned_user and what the phishing and
\* dark-web report parsers key their records by, for the same e-mail cell
C26_OneEmailIdentitySpace ==
    \A c \in DOMAIN email_keys :
        ( /\ email_keys["user_list"] # None
          /\ email_keys["user_list"] # Some(<<>>)
          /\ email_keys[c] # None )
        => email_keys[c] = email_keys["user_list"]

(***************************************************************************)
(* Lifecycle claims (SpecMonths)                                           *)
(***************************************************************************)
\* the users / assets map of the snapshot of month m (<<>> when none)
UsersOfMonth(m) ==
    IF Exists(normalized_users[m]) THEN normalized_users[m][1].users ELSE <<>>

AssetsOfMonth(m) ==
    IF Exists(normalized_assets[m]) THEN normalized_assets[m][1].assets ELSE <<>>

\* asset id is in the snapshot of month m with this status
AssetIs(m, id, status) ==
    Has(AssetsOfMonth(m), id) /\ Get(AssetsOfMonth(m), id).status = status

\* C27: in every snapshot for month M, every user and asset with status
\* active has last_seen = M; every retired asset has last_seen = L, the last
\* month it appeared in the raw input, with L strictly earlier than M, and
\* the snapshots of the months after L up to M all carry it retired with
\* that same last_seen
C27_LastSeenLifecycle ==
    \A m \in Months :
        /\ \A i \in DOMAIN UsersOfMonth(m) :
               UsersOfMonth(m)[i][2].status = "active"
                   => UsersOfMonth(m)[i][2].last_seen = Some(m)
        /\ \A i \in DOMAIN AssetsOfMonth(m) :
               LET id    == AssetsOfMonth(m)[i][1]
                   asset == AssetsOfMonth(m)[i][2]
               IN  /\ asset.status = "active" => asset.last_seen = Some(m)
                   /\ asset.status = "retired" =>
                          \E l \in Months :
                              /\ MonthLess(l, m)
                              /\ asset.last_seen = Some(l)
                              /\ AssetIs(l, id, "active")
                              /\ \A k \in Months :
                                     (MonthLess(l, k) /\ (MonthLess(k, m) \/ k = m))
                                         => /\ AssetIs(k, id, "retired")
                                            /\ Get(AssetsOfMonth(k), id).last_seen
                                                   = Some(l)
        \* the active assets of the month just written are those of its raw list
        /\ ( /\ m = MonthAt(asset_idx)
             /\ last_asset_raw # None
             /\ Exists(normalized_assets[m]) )
           => {id \in Keys(AssetsOfMonth(m)) : AssetIs(m, id, "active")}
                  = Keys(parse_asset_list_xlsx(last_asset_raw[1], m))

\* the third month's snapshots hold an active user, an active asset and an
\* asset that was last listed two months before
C27_Witness ==
    /\ month_idx = 3
    /\ \E i \in DOMAIN UsersOfMonth(MonthAt(3)) :
           UsersOfMonth(MonthAt(3))[i][2].status = "active"
    /\ \E id \in Keys(AssetsOfMonth(MonthAt(3))) : AssetIs(MonthAt(3), id, "active")
    /\ \E id \in Keys(AssetsOfMonth(MonthAt(3))) :
           /\ AssetIs(MonthAt(3), id, "retired")
           /\ Get(AssetsOfMonth(MonthAt(3)), id).last_seen = Some(MonthAt(1))

(***************************************************************************)
(* Pipeline termination claim (SpecPipelineFair)                           *)
(***************************************************************************)
\* the raw folder holds a user list, an asset list and all four reports
ValidInputs ==
    /\ raw_dir.exists
    /\ raw_dir.user_list = Some(EnrichUserRows)
    /\ raw_dir.asset_list = Some(EnrichAssetRows)
    /\ raw_dir.edr # None /\ raw_dir.backup # None
    /\ raw_dir.phishing # None /\ raw_dir.darkweb # None

\* C28: a run of the pipeline on a raw folder with a valid user list, a valid
\* asset list and all four reports eventually has run every stage to success
\* and written the final report
C28_PipelineCompletion ==
    (pc = "run_pipeline" /\ ValidInputs)
        ~> (pc = "exited" /\ exit_status = Some(0) /\ Exists(files.report))

(***************************************************************************)
(* Asset key set claim (SpecAssets)                                        *)
(***************************************************************************)
\* the snapshots of month i - 1 and month i both exist
Consecutive(i) ==
    /\ Exists(normalized_assets[MonthAt(i - 1)])
    /\ Exists(normalized_assets[MonthAt(i)])

\* C29: the snapshot parse_asset_list writes holds every key of the previous
\* snapshot it read; so the diff of two consecutive asset snapshots has no
\* retired_devices and a device_count_change >= 0, and an asset that went
\* from active to retired is not in retired_devices
C29_AssetKeysOnlyGrow ==
    \A i \in 2..MaxMonth :
        Consecutive(i) =>
            LET prev == normalized_assets[MonthAt(i - 1)][1].assets
                curr == normalized_assets[MonthAt(i)][1].assets
            IN  /\ Keys(prev) \subseteq Keys(curr)
                /\ generate_metrics(<<>>, <<>>, prev, curr).device_count_change >= 0
                /\ \A order \in IterationOrders(Keys(prev) \cap Keys(curr)) :
                       /\ diff_assets(prev, curr, order).retired_devices = <<>>
                       /\ \A id \in Keys(prev) \cap Keys(curr) :
                              ( /\ Get(prev, id).status = "active"
                                /\ Get(curr, id).status = "retired" )
                              => id \notin
                                     SeqToSet(diff_assets(prev, curr, order).retired_devices)

\* between two consecutive snapshots one asset went from active to retired
\* and another asset is new
C29_Witness ==
    \E i \in 2..MaxMonth :
        /\ Consecutive(i)
        /\ LET prev == normalized_assets[MonthAt(i - 1)][1].assets
               curr == normalized_assets[MonthAt(i)][1].assets
           IN  /\ \E id \in Keys(prev) :
                      /\ Get(prev, id).status = "active"
                      /\ Has(curr, id) /\ Get(curr, id).status = "retired"
               /\ Keys(curr) \ Keys(prev) # {}

(***************************************************************************)
(* Backup risk claim (SpecInsight)                                         *)
(***************************************************************************)
\* C30: for every asset whose backup_state.status is "failed" after backup
\* enrichment, the security_risks of the insight bundle hold the sentence
\* "Asset <device_name> has failing backups."
C30_FailedBackupsReported ==
    Exists(insights) =>
        \A i \in DOMAIN ins_assets[1].assets :
            LET asset == ins_assets[1].assets[i][2]
            IN  FieldIs(SubMapping(asset, "backup_state"), "status", "failed")
                    => \E n \in DOMAIN insights[1].security_risks :
                           insights[1].security_risks[n]
                               = <<"Asset {} has failing backups.", asset.device_name>>

====
